---------------------------- MODULE Spec2Model ----------------------------
(***************************************************************************)
(* Model of the order-checkout path of the point-of-sale backend           *)
(* (routes/index.js): POST /processOrder and GET /receipts/:receipt_id,    *)
(* the PostgreSQL tables they touch, and the shared pg connection pool     *)
(* through which every statement is sent with pool.query.                  *)
(*                                                                         *)
(* Every `await pool.query(...)` of a handler is one step: the statement   *)
(* runs on the pooled client the request was handed, the client goes back  *)
(* to the pool, and the handler at once asks the pool for a client for its *)
(* next statement.                                                         *)
(***************************************************************************)
EXTENDS Integers, Sequences, FiniteSets, TLC

\* ------------------------------------------------------------ bounds
NumReq     == 2    \* request slots (concurrent specification)
SeqReqs    == 2    \* requests served one after the other (sequential specification)
PoolMax    == 1    \* clients the pool may hold (pg's `max`)
MaxQty     == 2    \* largest quantity of a cart entry
MaxCartLen == 2    \* longest orderList
InitQty    == 3    \* starting on-hand quantity of every inventory item
MaxCalls   == 2    \* translate calls of a behaviour
MaxItemQty == 3    \* largest quantity of an item of the kiosk cart
MaxNextId  == 4    \* largest id a cart item takes

Reqs    == 1..NumReq
Clients == 1..PoolMax
NULL    == "NULL"

\* ------------------------------------------------- catalog (static tables)
\* menu rows by name, in table order; the recipe_ingredient/ingredient/
\* inventory join gives, per menu row, rows (inventory_id, quantity).
MenuNames == <<"OrangeChicken", "FriedRice", "MediumDrink", "EggRoll">>
InvIds    == {"chicken", "rice", "cup"}

RecipeRows(name) ==
    CASE name = "OrangeChicken" -> << [inventory_id |-> "chicken", quantity |-> 2] >>
      [] name = "FriedRice"     -> << [inventory_id |-> "rice",    quantity |-> 1] >>
      [] name = "MediumDrink"   -> << [inventory_id |-> "cup",     quantity |-> 1] >>
      [] name = "EggRoll"       -> << [inventory_id |-> "chicken", quantity |-> 1],
                                      [inventory_id |-> "rice",    quantity |-> 2] >>
      [] OTHER                  -> << >>

\* ------------------------------------------------------------ cart entries
\* quantity 0 stands for an entry that carries no quantity field.
Entry(type, name, entrees, side, size, price, quantity) ==
    [type |-> type, name |-> name, entrees |-> entrees, side |-> side,
     size |-> size, price |-> price, quantity |-> quantity]

ItemKinds ==
    { Entry("Meal", NULL, <<"OrangeChicken", "OrangeChicken">>, "FriedRice", "Plate", 9, 0),
      Entry("Meal", NULL, <<NULL, NULL, NULL>>, "FriedRice", "Bowl", 8, 0),
      Entry("Meal", NULL, <<"", NULL>>, "FriedRice", "Bowl", 8, 0),
      Entry("Drink", "MediumDrink", <<>>, NULL, NULL, 2, 0),
      Entry("drink", "MediumDrink", <<>>, NULL, NULL, 2, 0),
      Entry("Appetizer", "EggRoll", <<>>, NULL, NULL, 3, 0),
      Entry("appetizer", "EggRoll", <<>>, NULL, NULL, 3, 0),
      Entry("Side", "FriedRice", <<>>, NULL, NULL, 4, 0) }

Qtys == 0..MaxQty

CartEntries == { [k EXCEPT !.quantity = n] : k \in ItemKinds, n \in Qtys }

RECURSIVE SeqsUpTo(_, _)
SeqsUpTo(S, n) ==
    IF n = 0 THEN { << >> }
    ELSE LET shorter == SeqsUpTo(S, n - 1)
         IN  shorter \cup { Append(s, e) : s \in { t \in shorter : Len(t) = n - 1 }, e \in S }

Carts  == SeqsUpTo(CartEntries, MaxCartLen)
Totals == {7, 12}

\* the carts of the concurrent specification
ConcCarts ==
    { << Entry("Drink", "MediumDrink", <<>>, NULL, NULL, 2, 1) >>,
      << Entry("appetizer", "EggRoll", <<>>, NULL, NULL, 3, 2) >>,
      << Entry("Meal", NULL, <<"OrangeChicken", "OrangeChicken">>, "FriedRice", "Plate", 9, 1),
         Entry("Drink", "MediumDrink", <<>>, NULL, NULL, 2, 2) >> }


\* ------------------------------------------------------------ state
VARIABLES
    receipt,         \* table receipt: rows [receipt_id, totalamount, status, by]
    line_item,       \* table line_item: rows [line_item_id, receipt_id, price, by]
    meal_item,       \* table meal_item
    drink_item,      \* table drink_item
    appetizer_item,  \* table appetizer_item
    inventory,       \* table inventory: committed quantity per inventory_id
    invPending,      \* per client: decrements made inside its open transaction
    gone,            \* per client: committed rows its open transaction deleted or replaced
    receipt_seq,     \* next value of receipt.receipt_id's sequence
    line_item_seq,   \* next value of line_item.line_item_id's sequence
    tx,              \* per client: "none" | "open": its session's transaction
    txOwner,         \* per client: the request whose BEGIN opened its transaction
    live,            \* clients the pool holds
    idle,            \* the pool's idle clients, most recently released last
    waitq,           \* requests waiting for a client, oldest first
    hold,            \* per request: the client running its statement (0: none)
    req,             \* per request: the handler's locals and its position
    catalog,         \* per table filled by an add endpoint (inventory, employee, menu): its rows
    currentLanguage, \* translation provider: the language the pages are shown in
    translationCache,\* translation provider: text -> translation
    calls,           \* translation provider: the translate calls and where each stands
    cart,            \* cart provider: cartItems, the cart in order
    nextId,          \* cart provider: the id the next new cart item takes
    selectedMeal,    \* cashier page: the meal chosen, or null
    selectedSide,    \* cashier page: the side chosen, or null
    selectedEntrees, \* cashier page: the entrees chosen, each with its count
    maxEntreesAllowed \* cashier page: how many entrees the chosen meal takes

tables == <<receipt, line_item, meal_item, drink_item, appetizer_item,
            inventory, invPending, gone>>
seqs   == <<receipt_seq, line_item_seq>>
pool   == <<live, idle, waitq, hold>>
provider == <<currentLanguage, translationCache, calls, cart, nextId>>
cashier  == <<selectedMeal, selectedSide, selectedEntrees, maxEntreesAllowed>>
vars   == <<receipt, line_item, meal_item, drink_item, appetizer_item,
            inventory, invPending, gone, receipt_seq, line_item_seq,
            tx, txOwner, live, idle, waitq, hold, req,
            catalog, provider, cashier>>

\* A row's `by` is 0 once committed and the client whose open transaction
\* inserted it until then. A statement on client c reads the committed rows
\* and those of c's own transaction (read committed), less the committed
\* rows c's transaction has deleted or replaced.
Visible(T, c) == { row \in T : (row.by = 0 /\ row \notin gone[c]) \/ row.by = c }

\* the status of a receipt row inserted without one: the INSERT of processOrder
\* names no status, and the kitchen reads new orders WHERE status = 'Pending'
StatusDefault == "Pending"

NoPending == [x \in InvIds |-> 0]

NoResponse == [status |-> 0, result |-> 0, body |-> << >>]

\* A request slot also carries the page that sent the request: which page it is
\* (kiosk cart page, cashier checkout button), its cart now and when checkout
\* was clicked, whether the button was given a resetOrder, how its fetch
\* settled, and the alert it showed last.
IdleReq ==
    [kind |-> "none", pc |-> "idle", orderList |-> << >>, totalPrice |-> 0,
     i |-> 0, q |-> 0, receiptId |-> 0, lineItemId |-> 0, lineItemIds |-> {},
     ingredientList |-> << >>, k |-> 0, beginOn |-> 0,
     getId |-> 0, lineItems |-> << >>, idx |-> 0, items |-> << >>,
     status |-> NULL, line_items |-> << >>, isArray |-> FALSE, selIds |-> {},
     email |-> FALSE, receipts |-> << >>, ri |-> 0, orders |-> << >>,
     table |-> NULL, newId |-> 0,
     page |-> "none", cart |-> << >>, clicked |-> << >>, hasReset |-> FALSE,
     fetch |-> "none", alert |-> NULL,
     resp |-> NoResponse]

\* ---- the pages' state when the application loads, and the tables the add
\* endpoints fill
\* A text on a page is the English text it was written as, shown in a language.
Shown(text, lang) == [text |-> text, lang |-> lang]
Texts     == { Shown(t, "en") : t \in {"Order", "Back"} }
Languages == {"en", "es", "fr"}
NoEntry   == Shown("", "none")
EmptyCache == [t \in Texts |-> NoEntry]

Calls == 1..MaxCalls
IdleCall ==
    [pc |-> "idle", texts |-> << >>, isArray |-> FALSE, lang |-> "en",
     cache |-> EmptyCache, untranslated |-> << >>, api |-> "none", result |-> << >>]

\* useState('en'), useState({}), useState([]), useState(1)
ProviderStart ==
    /\ currentLanguage = "en" /\ translationCache = EmptyCache
    /\ calls = [k \in Calls |-> IdleCall]
    /\ cart = << >> /\ nextId = 1

\* a row of the menu the cashier page has fetched, and the null a selection
\* holds when nothing is selected
MenuRow(menu_id, name) == [menu_id |-> menu_id, name |-> name]
NoRow == MenuRow(0, NULL)

\* useState(null), useState(null), useState([]), useState(0)
CashierStart ==
    /\ selectedMeal = NoRow /\ selectedSide = NoRow
    /\ selectedEntrees = << >> /\ maxEntreesAllowed = 0

AddTables == {"inventory", "employee", "menu"}
\* rows [id, by]: `by` is the request that inserted the row, 0 for the rows
\* that were there before; the menu starts empty
CatalogStart ==
    [t \in AddTables |-> IF t = "menu" THEN {} ELSE { [id |-> n, by |-> 0] : n \in {1, 2} }]

Init ==
    /\ ProviderStart /\ CashierStart /\ catalog = CatalogStart
    /\ receipt = {} /\ line_item = {} /\ meal_item = {}
    /\ drink_item = {} /\ appetizer_item = {}
    /\ inventory = [x \in InvIds |-> InitQty]
    /\ invPending = [c \in Clients |-> NoPending]
    /\ gone = [c \in Clients |-> {}]
    /\ receipt_seq = 1 /\ line_item_seq = 1
    /\ tx = [c \in Clients |-> "none"]
    /\ txOwner = [c \in Clients |-> 0]
    /\ live = {} /\ idle = << >> /\ waitq = << >>
    /\ hold = [r \in Reqs |-> 0]
    /\ req = [r \in Reqs |-> IdleReq]

\* ------------------------------------------------------------ the pool
Front(s) == SubSeq(s, 1, Len(s) - 1)
Last(s)  == s[Len(s)]
MinOf(S) == CHOOSE x \in S : \A y \in S : x <= y

\* pool.query, first half: the request asks for a client. An idle client is
\* taken (the one released last); else a new client is connected while the
\* pool holds fewer than PoolMax; else the request waits its turn.
Acquire(r) ==
    IF idle # << >>
    THEN /\ hold' = [hold EXCEPT ![r] = Last(idle)]
         /\ idle' = Front(idle)
         /\ UNCHANGED <<live, waitq>>
    ELSE IF live # Clients
    THEN LET c == MinOf(Clients \ live)
         IN  /\ hold' = [hold EXCEPT ![r] = c]
             /\ live' = live \cup {c}
             /\ UNCHANGED <<idle, waitq>>
    ELSE /\ waitq' = Append(waitq, r)
         /\ UNCHANGED <<live, idle, hold>>

\* pool.query, second half: the statement of request r on client c is over.
\* The client is released (removed when it failed: `lost`), which hands it
\* to the oldest waiting request if there is one; then, when the handler
\* goes on to another statement (`more`), r asks for a client again.
ReleaseAndNext(r, c, lost, more) ==
    IF waitq # << >>
    THEN /\ hold' = [hold EXCEPT ![Head(waitq)] = c, ![r] = 0]
         /\ waitq' = IF more THEN Append(Tail(waitq), r) ELSE Tail(waitq)
         /\ UNCHANGED <<live, idle>>
    ELSE IF more
    THEN IF ~lost
         THEN UNCHANGED <<live, idle, waitq, hold>>
         ELSE IF idle # << >>
         THEN /\ hold' = [hold EXCEPT ![r] = Last(idle)]
              /\ idle' = Front(idle)
              /\ live' = live \ {c}
              /\ UNCHANGED waitq
         ELSE UNCHANGED <<live, idle, waitq, hold>>
    ELSE /\ hold' = [hold EXCEPT ![r] = 0]
         /\ idle' = IF lost THEN idle ELSE Append(idle, c)
         /\ live' = IF lost THEN live \ {c} ELSE live
         /\ UNCHANGED waitq

\* ------------------------------------------------------------ the database
TxTag(c) == IF tx[c] = "open" THEN c ELSE 0

DiscardRows(T, c) == { row \in T : row.by # c }
CommitRows(T, c)  == { [row EXCEPT !.by = 0] : row \in { x \in T : x.by = c } }
                        \cup (DiscardRows(T, c) \ gone[c])

MutantNewQuantity(quantity, d) == IF quantity < d THEN 0 ELSE quantity - d

\* `SET quantity = quantity - $1`: the statement has no WHERE on the stock
\* left and no GREATEST
NewQuantity(quantity, d) == quantity - d

\* COMMIT of client c's open transaction
DbCommit(c) ==
    /\ receipt' = CommitRows(receipt, c)
    /\ line_item' = CommitRows(line_item, c)
    /\ meal_item' = CommitRows(meal_item, c)
    /\ drink_item' = CommitRows(drink_item, c)
    /\ appetizer_item' = CommitRows(appetizer_item, c)
    /\ inventory' = [x \in InvIds |-> NewQuantity(inventory[x], invPending[c][x])]
    /\ invPending' = [invPending EXCEPT ![c] = NoPending]
    /\ gone' = [gone EXCEPT ![c] = {}]

\* ROLLBACK of client c's transaction, or the loss of its connection
DbDiscard(c) ==
    /\ receipt' = DiscardRows(receipt, c)
    /\ line_item' = DiscardRows(line_item, c)
    /\ meal_item' = DiscardRows(meal_item, c)
    /\ drink_item' = DiscardRows(drink_item, c)
    /\ appetizer_item' = DiscardRows(appetizer_item, c)
    /\ invPending' = [invPending EXCEPT ![c] = NoPending]
    /\ gone' = [gone EXCEPT ![c] = {}]
    /\ UNCHANGED inventory


\* ------------------------------------------------------------ POST /processOrder
\* `orderItem.quantity || 1`
Quantity(orderItem) == IF orderItem.quantity = 0 THEN 1 ELSE orderItem.quantity

MutantEntreeOrNull(orderItem, n) ==
    IF n <= Len(orderItem.entrees) /\ orderItem.entrees[n] \notin {NULL, ""}
    THEN orderItem.entrees[n] ELSE "OrangeChicken"

\* `orderItem.entrees[n] || null` (n counted from 1 here): a slot that is
\* missing, null or the empty string gives null
EntreeOrNull(orderItem, n) ==
    IF n <= Len(orderItem.entrees) /\ orderItem.entrees[n] # ""
    THEN orderItem.entrees[n] ELSE NULL

MutantVariantTable(type) == IF type = "Meal" THEN "meal_item" ELSE "drink_item"

\* the type-specific table the switch on orderItem.type inserts into
VariantTable(type) ==
    CASE type = "Meal"      -> "meal_item"
      [] type = "drink"     -> "drink_item"
      [] type = "Drink"     -> "drink_item"
      [] type = "appetizer" -> "appetizer_item"
      [] OTHER              -> "none"

\* the rows of the ingredient SELECT: the menu rows whose name matches, each
\* joined with its recipe's (inventory_id, quantity) rows
RECURSIVE JoinRows(_, _)
JoinRows(names, n) ==
    IF n > Len(MenuNames) THEN << >>
    ELSE (IF MenuNames[n] \in names THEN RecipeRows(MenuNames[n]) ELSE << >>)
            \o JoinRows(names, n + 1)

MutantIngredientQuery(orderItem) ==
    IF orderItem.type = "Meal"
    THEN JoinRows({EntreeOrNull(orderItem, 1)}, 1) \o JoinRows({EntreeOrNull(orderItem, 2)}, 1)
            \o JoinRows({EntreeOrNull(orderItem, 3)}, 1) \o JoinRows({orderItem.side}, 1)
    ELSE JoinRows({orderItem.name} \ {NULL}, 1)

\* the rows of ingredientList: `WHERE m.name IN ($1, $2, $3, $4)` of a Meal,
\* `WHERE m.name = $1` of any other entry
IngredientQuery(orderItem) ==
    IF orderItem.type = "Meal"
    THEN JoinRows({EntreeOrNull(orderItem, 1), EntreeOrNull(orderItem, 2),
                   EntreeOrNull(orderItem, 3), orderItem.side} \ {NULL}, 1)
    ELSE JoinRows({orderItem.name} \ {NULL}, 1)

MutantTotalQuantityNeeded(row, quantity) == row.quantity

\* `row.quantity * quantity`
TotalQuantityNeeded(row, quantity) == row.quantity * quantity

MutantNextVal(seq) == seq

\* nextval of a serial column's sequence
NextVal(seq) == seq + 1

InFlight(r) == hold[r] # 0

\* where the handler goes once the statements of orderList[i] are all issued
AfterOrderItem(s) ==
    IF s.i < Len(s.orderList)
    THEN [s EXCEPT !.pc = "insLineItem", !.i = s.i + 1, !.q = 0]
    ELSE [s EXCEPT !.pc = "COMMIT"]

\* where the handler goes once iteration q of the quantity loop is over
AfterIteration(s) ==
    IF s.q + 1 < Quantity(s.orderList[s.i])
    THEN [s EXCEPT !.pc = "insLineItem", !.q = s.q + 1]
    ELSE [s EXCEPT !.pc = "selIngredients"]

\* The handler is over: its locals are gone. What is kept of the request is
\* what it was sent, the receipt and line item ids it drew, what it answered,
\* and the page that sent it (the server does not touch the page).
Respond(s, status, result, body) ==
    [IdleReq EXCEPT !.kind = s.kind, !.pc = "done", !.orderList = s.orderList,
                    !.totalPrice = s.totalPrice, !.receiptId = s.receiptId,
                    !.lineItemIds = s.lineItemIds, !.getId = s.getId,
                    !.status = s.status, !.line_items = s.line_items,
                    !.isArray = s.isArray, !.email = s.email,
                    !.table = s.table, !.newId = s.newId,
                    !.page = s.page, !.cart = s.cart, !.clicked = s.clicked,
                    !.hasReset = s.hasReset, !.fetch = s.fetch, !.alert = s.alert,
                    !.resp = [status |-> status, result |-> result, body |-> body]]

\* control enters the catch block of processOrder
Catch(s) == [Respond(s, 0, 0, << >>) EXCEPT !.pc = "ROLLBACK"]

\* the handlers that send BEGIN ... COMMIT, and the statement after BEGIN
Transactional(kind) == kind \in {"checkout", "put", "delete"}

AfterBegin(kind) ==
    CASE kind = "put"    -> "updStatus"
      [] kind = "delete" -> "selIds"
      [] OTHER           -> "insReceipt"

\* await pool.query('BEGIN')
Begin(r) ==
    LET c == hold[r] IN
    /\ InFlight(r) /\ req[r].pc = "BEGIN"
    /\ tx' = [tx EXCEPT ![c] = "open"]
    /\ txOwner' = [txOwner EXCEPT ![c] = IF tx[c] = "open" THEN @ ELSE r]
    /\ req' = [req EXCEPT ![r].pc = AfterBegin(req[r].kind), ![r].beginOn = c]
    /\ ReleaseAndNext(r, c, FALSE, TRUE)
    /\ UNCHANGED <<tables, seqs>>
    /\ UNCHANGED <<catalog, provider, cashier>>

MutantTotalAmount(totalPrice) == 0

\* the value bound to receipt.totalamount: `[totalPrice]`
TotalAmount(totalPrice) == totalPrice

\* INSERT INTO receipt (date, totalamount, order_time) ... RETURNING receipt_id
InsertReceipt(r) ==
    LET c == hold[r]
        s == req[r]
        s1 == [s EXCEPT !.receiptId = receipt_seq]
    IN
    /\ InFlight(r) /\ s.pc = "insReceipt"
    /\ receipt' = receipt \cup
          { [receipt_id |-> receipt_seq, totalamount |-> TotalAmount(s.totalPrice),
             status |-> StatusDefault, by |-> TxTag(c)] }
    /\ receipt_seq' = NextVal(receipt_seq)
    /\ req' = [req EXCEPT ![r] =
                  IF s.orderList = << >> THEN [s1 EXCEPT !.pc = "COMMIT"]
                  ELSE [s1 EXCEPT !.pc = "insLineItem", !.i = 1, !.q = 0]]
    /\ ReleaseAndNext(r, c, FALSE, TRUE)
    /\ UNCHANGED <<line_item, meal_item, drink_item, appetizer_item,
                   inventory, invPending, gone, line_item_seq, tx, txOwner>>
    /\ UNCHANGED <<catalog, provider, cashier>>

\* INSERT INTO line_item (receipt_id, price) ... RETURNING line_item_id
InsertLineItem(r) ==
    LET c == hold[r]
        s == req[r]
        orderItem == s.orderList[s.i]
        s1 == [s EXCEPT !.lineItemId = line_item_seq,
                        !.lineItemIds = @ \cup {line_item_seq}]
    IN
    /\ InFlight(r) /\ s.pc = "insLineItem"
    /\ line_item' = line_item \cup
          { [line_item_id |-> line_item_seq, receipt_id |-> s.receiptId,
             price |-> orderItem.price, by |-> TxTag(c)] }
    /\ line_item_seq' = NextVal(line_item_seq)
    /\ req' = [req EXCEPT ![r] =
                  IF VariantTable(orderItem.type) = "none" THEN AfterIteration(s1)
                  ELSE [s1 EXCEPT !.pc = "insVariant"]]
    /\ ReleaseAndNext(r, c, FALSE, TRUE)
    /\ UNCHANGED <<receipt, meal_item, drink_item, appetizer_item,
                   inventory, invPending, gone, receipt_seq, tx, txOwner>>
    /\ UNCHANGED <<catalog, provider, cashier>>

\* the INSERT of the switch on orderItem.type
InsertVariant(r) ==
    LET c == hold[r]
        s == req[r]
        orderItem == s.orderList[s.i]
        t == VariantTable(orderItem.type)
    IN
    /\ InFlight(r) /\ s.pc = "insVariant"
    /\ meal_item' = IF t # "meal_item" THEN meal_item ELSE meal_item \cup
          { [line_item_id |-> s.lineItemId, size |-> orderItem.size,
             price |-> orderItem.price,
             meat1 |-> EntreeOrNull(orderItem, 1),
             meat2 |-> EntreeOrNull(orderItem, 2),
             meat3 |-> EntreeOrNull(orderItem, 3),
             side |-> orderItem.side, by |-> TxTag(c)] }
    /\ drink_item' = IF t # "drink_item" THEN drink_item ELSE drink_item \cup
          { [line_item_id |-> s.lineItemId, name |-> orderItem.name,
             price |-> orderItem.price, size |-> "Regular", by |-> TxTag(c)] }
    /\ appetizer_item' = IF t # "appetizer_item" THEN appetizer_item
          ELSE appetizer_item \cup
          { [line_item_id |-> s.lineItemId, name |-> orderItem.name,
             price |-> orderItem.price, by |-> TxTag(c)] }
    /\ req' = [req EXCEPT ![r] = AfterIteration(s)]
    /\ ReleaseAndNext(r, c, FALSE, TRUE)
    /\ UNCHANGED <<receipt, line_item, inventory, invPending, gone, seqs, tx, txOwner>>
    /\ UNCHANGED <<catalog, provider, cashier>>

\* SELECT inv.inventory_id, i.quantity FROM menu m JOIN ... WHERE m.name ...
SelectIngredients(r) ==
    LET c == hold[r]
        s == req[r]
        rows == IngredientQuery(s.orderList[s.i])
        s1 == [s EXCEPT !.ingredientList = rows, !.k = 1]
    IN
    /\ InFlight(r) /\ s.pc = "selIngredients"
    /\ req' = [req EXCEPT ![r] =
                  IF rows = << >> THEN AfterOrderItem(s1)
                  ELSE [s1 EXCEPT !.pc = "updInventory"]]
    /\ ReleaseAndNext(r, c, FALSE, TRUE)
    /\ UNCHANGED <<tables, seqs, tx, txOwner>>
    /\ UNCHANGED <<catalog, provider, cashier>>

\* UPDATE inventory SET quantity = quantity - $1 WHERE inventory_id = $2
\* The UPDATE waits while another client's open transaction holds the row.
UpdateInventory(r) ==
    LET c == hold[r]
        s == req[r]
        row == s.ingredientList[s.k]
        x == row.inventory_id
        n == TotalQuantityNeeded(row, Quantity(s.orderList[s.i]))
    IN
    /\ InFlight(r) /\ s.pc = "updInventory"
    /\ \A d \in Clients \ {c} : invPending[d][x] = 0
    /\ IF tx[c] = "open"
       THEN /\ invPending' = [invPending EXCEPT ![c][x] = @ + n]
            /\ UNCHANGED inventory
       ELSE /\ inventory' = [inventory EXCEPT ![x] = NewQuantity(@, n)]
            /\ UNCHANGED invPending
    /\ req' = [req EXCEPT ![r] =
                  IF s.k < Len(s.ingredientList) THEN [s EXCEPT !.k = s.k + 1]
                  ELSE AfterOrderItem(s)]
    /\ ReleaseAndNext(r, c, FALSE, TRUE)
    /\ UNCHANGED <<receipt, line_item, meal_item, drink_item, appetizer_item,
                   gone, seqs, tx, txOwner>>
    /\ UNCHANGED <<catalog, provider, cashier>>

\* the session of client c ends its transaction, if it has one
EndTx(c) ==
    /\ tx' = [tx EXCEPT ![c] = "none"]
    /\ txOwner' = [txOwner EXCEPT ![c] = 0]

\* await pool.query('COMMIT'); res.json({ result: receiptId, success: true })
\* COMMIT outside a transaction does nothing and raises no error.
Commit(r) ==
    LET c == hold[r]
        s == req[r]
    IN
    /\ InFlight(r) /\ s.pc = "COMMIT"
    /\ IF tx[c] = "open" THEN DbCommit(c) ELSE UNCHANGED tables
    /\ EndTx(c)
    /\ req' = [req EXCEPT ![r] = Respond(s, 200, s.receiptId, << >>)]
    /\ ReleaseAndNext(r, c, FALSE, FALSE)
    /\ UNCHANGED seqs
    /\ UNCHANGED <<catalog, provider, cashier>>

\* catch: await pool.query('ROLLBACK'); res.status(500).json(...)
\* ROLLBACK outside a transaction does nothing and raises no error.
Rollback(r) ==
    LET c == hold[r]
        s == req[r]
    IN
    /\ InFlight(r) /\ s.pc = "ROLLBACK"
    /\ IF tx[c] = "open" THEN DbDiscard(c) ELSE UNCHANGED tables
    /\ EndTx(c)
    /\ req' = [req EXCEPT ![r] = Respond(s, 500, 0, << >>)]
    /\ ReleaseAndNext(r, c, FALSE, FALSE)
    /\ UNCHANGED seqs
    /\ UNCHANGED <<catalog, provider, cashier>>


\* ------------------------------------------------------------ GET /receipts/:receipt_id
\* a result set's rows in line_item_id order
RECURSIVE RowsById(_)
RowsById(S) ==
    IF S = {} THEN << >>
    ELSE LET first == CHOOSE x \in S : \A y \in S : x.line_item_id <= y.line_item_id
         IN  << [line_item_id |-> first.line_item_id, price |-> first.price] >>
                \o RowsById(S \ {first})

\* `[mi.meat1, mi.meat2, mi.meat3].filter(Boolean)`
FilterBoolean(seq) == SelectSeq(seq, LAMBDA e : e # NULL)

MutantItem(li, type, name, size, meats, side) ==
    [line_item_id |-> li.line_item_id, type |-> "Meal", name |-> name,
     size |-> size, meats |-> meats, side |-> side, price |-> li.price]

\* items.push({ line_item_id, type, ..., price: li.price })
Item(li, type, name, size, meats, side) ==
    [line_item_id |-> li.line_item_id, type |-> type, name |-> name,
     size |-> size, meats |-> meats, side |-> side, price |-> li.price]

\* the next line item of the loop, or the response once all are done
AfterLineItem(s, item) ==
    LET items == Append(s.items, item) IN
    IF s.idx < Len(s.lineItems)
    THEN [s EXCEPT !.pc = "selMeal", !.idx = s.idx + 1, !.items = items]
    ELSE Respond(s, 200, s.getId, items)

\* SELECT receipt_id, date, totalamount, status FROM receipt WHERE receipt_id = $1
SelectReceipt(r) ==
    LET c == hold[r]
        s == req[r]
        found == { x \in Visible(receipt, c) : x.receipt_id = s.getId }
    IN
    /\ InFlight(r) /\ s.pc = "selReceipt"
    /\ req' = [req EXCEPT ![r] =
                  IF found = {} THEN Respond(s, 404, 0, << >>)
                  ELSE [s EXCEPT !.pc = "selLineItems"]]
    /\ ReleaseAndNext(r, c, FALSE, found # {})
    /\ UNCHANGED <<tables, seqs, tx, txOwner>>
    /\ UNCHANGED <<catalog, provider, cashier>>

\* SELECT li.line_item_id, li.price FROM line_item li WHERE li.receipt_id = $1
SelectLineItems(r) ==
    LET c == hold[r]
        s == req[r]
        rows == RowsById({ x \in Visible(line_item, c) : x.receipt_id = s.getId })
    IN
    /\ InFlight(r) /\ s.pc = "selLineItems"
    /\ req' = [req EXCEPT ![r] =
                  IF rows = << >> THEN Respond(s, 200, s.getId, << >>)
                  ELSE [s EXCEPT !.pc = "selMeal", !.lineItems = rows, !.idx = 1]]
    /\ ReleaseAndNext(r, c, FALSE, rows # << >>)
    /\ UNCHANGED <<tables, seqs, tx, txOwner>>
    /\ UNCHANGED <<catalog, provider, cashier>>

\* SELECT ... FROM meal_item mi WHERE mi.line_item_id = $1
SelectMeal(r) ==
    LET c == hold[r]
        s == req[r]
        li == s.lineItems[s.idx]
        found == { x \in Visible(meal_item, c) : x.line_item_id = li.line_item_id }
    IN
    /\ InFlight(r) /\ s.pc = "selMeal"
    /\ \/ /\ found = {}
          /\ req' = [req EXCEPT ![r].pc = "selAppetizer"]
          /\ ReleaseAndNext(r, c, FALSE, TRUE)
       \/ \E mi \in found :
            LET s1 == AfterLineItem(s, Item(li, "Meal", NULL, mi.size,
                         FilterBoolean(<<mi.meat1, mi.meat2, mi.meat3>>), mi.side))
            IN  /\ req' = [req EXCEPT ![r] = s1]
                /\ ReleaseAndNext(r, c, FALSE, s1.pc # "done")
    /\ UNCHANGED <<tables, seqs, tx, txOwner>>
    /\ UNCHANGED <<catalog, provider, cashier>>

\* SELECT ai.name FROM appetizer_item ai WHERE ai.line_item_id = $1
SelectAppetizer(r) ==
    LET c == hold[r]
        s == req[r]
        li == s.lineItems[s.idx]
        found == { x \in Visible(appetizer_item, c) : x.line_item_id = li.line_item_id }
    IN
    /\ InFlight(r) /\ s.pc = "selAppetizer"
    /\ \/ /\ found = {}
          /\ req' = [req EXCEPT ![r].pc = "selDrink"]
          /\ ReleaseAndNext(r, c, FALSE, TRUE)
       \/ \E ai \in found :
            LET s1 == AfterLineItem(s, Item(li, "Appetizer", ai.name, NULL, << >>, NULL))
            IN  /\ req' = [req EXCEPT ![r] = s1]
                /\ ReleaseAndNext(r, c, FALSE, s1.pc # "done")
    /\ UNCHANGED <<tables, seqs, tx, txOwner>>
    /\ UNCHANGED <<catalog, provider, cashier>>

\* SELECT di.name, di.size FROM drink_item di WHERE di.line_item_id = $1,
\* and the `Unknown` item when no table holds the line item
SelectDrink(r) ==
    LET c == hold[r]
        s == req[r]
        li == s.lineItems[s.idx]
        found == { x \in Visible(drink_item, c) : x.line_item_id = li.line_item_id }
    IN
    /\ InFlight(r) /\ s.pc = "selDrink"
    /\ \/ /\ found = {}
          /\ LET s1 == AfterLineItem(s, Item(li, "Unknown", NULL, NULL, << >>, NULL))
             IN  /\ req' = [req EXCEPT ![r] = s1]
                 /\ ReleaseAndNext(r, c, FALSE, s1.pc # "done")
       \/ \E di \in found :
            LET s1 == AfterLineItem(s, Item(li, "Drink", di.name, di.size, << >>, NULL))
            IN  /\ req' = [req EXCEPT ![r] = s1]
                /\ ReleaseAndNext(r, c, FALSE, s1.pc # "done")
    /\ UNCHANGED <<tables, seqs, tx, txOwner>>
    /\ UNCHANGED <<catalog, provider, cashier>>

\* ------------------------------------------------------------ GET /pendingOrders
\* LIMIT 6
PendingLimit == 6

\* ORDER BY r.date ASC, r.order_time ASC: a receipt's date and order_time are
\* the instant of its INSERT, so receipts inserted one after the other come
\* out in the order of their ids
RECURSIVE OldestFirst(_)
OldestFirst(S) ==
    IF S = {} THEN << >>
    ELSE LET first == CHOOSE x \in S : \A y \in S : x.receipt_id <= y.receipt_id
         IN  << first >> \o OldestFirst(S \ {first})

Limit(rows, n) == SubSeq(rows, 1, IF Len(rows) < n THEN Len(rows) ELSE n)

\* SELECT ... FROM receipt r WHERE r.status = 'Pending'
\* ORDER BY r.date ASC, r.order_time ASC LIMIT 6
PendingRows(R) == Limit(OldestFirst({ x \in R : x.status = "Pending" }), PendingLimit)

\* items.push({ type, ... }): the fields differ with the type, and only the
\* `Unknown` item carries the line item's id
OrderItem(type, name, size, meats, side, line_item_id) ==
    [type |-> type, name |-> name, size |-> size, meats |-> meats, side |-> side,
     line_item_id |-> line_item_id]

\* the next line item of the receipt, or the receipt's email once all are done
AfterOrderLine(s, item) ==
    LET items == Append(s.items, item) IN
    IF s.idx < Len(s.lineItems)
    THEN [s EXCEPT !.pc = "poMeal", !.idx = s.idx + 1, !.items = items]
    ELSE [s EXCEPT !.pc = "poEmail", !.items = items]

\* orders.push({ receipt_id, ..., email: foundEmail, totalamount, items }), then
\* the next receipt of the loop, or res.json(orders) once all are done
AfterEmail(s, foundEmail) ==
    LET orders == Append(s.orders,
                     [receipt_id |-> s.receipts[s.ri].receipt_id,
                      totalamount |-> s.receipts[s.ri].totalamount,
                      email |-> foundEmail, items |-> s.items])
    IN  IF s.ri < Len(s.receipts)
        THEN [s EXCEPT !.pc = "poLineItems", !.ri = s.ri + 1, !.orders = orders]
        ELSE Respond([s EXCEPT !.orders = orders], 200, 0, orders)

SelectPending(r) ==
    LET c == hold[r]
        s == req[r]
        receipts == PendingRows(Visible(receipt, c))
    IN
    /\ InFlight(r) /\ s.pc = "poReceipts"
    /\ req' = [req EXCEPT ![r] =
                  IF receipts = << >> THEN Respond(s, 200, 0, << >>)
                  ELSE [s EXCEPT !.pc = "poLineItems", !.receipts = receipts, !.ri = 1]]
    /\ ReleaseAndNext(r, c, FALSE, receipts # << >>)
    /\ UNCHANGED <<tables, seqs, tx, txOwner>>
    /\ UNCHANGED <<catalog, provider, cashier>>

\* SELECT li.line_item_id, li.price FROM line_item li WHERE li.receipt_id = $1
PendingLineItems(r) ==
    LET c == hold[r]
        s == req[r]
        id == s.receipts[s.ri].receipt_id
        rows == RowsById({ x \in Visible(line_item, c) : x.receipt_id = id })
    IN
    /\ InFlight(r) /\ s.pc = "poLineItems"
    /\ req' = [req EXCEPT ![r] =
                  IF rows = << >> THEN [s EXCEPT !.pc = "poEmail", !.items = << >>]
                  ELSE [s EXCEPT !.pc = "poMeal", !.lineItems = rows, !.idx = 1,
                                 !.items = << >>]]
    /\ ReleaseAndNext(r, c, FALSE, TRUE)
    /\ UNCHANGED <<tables, seqs, tx, txOwner>>
    /\ UNCHANGED <<catalog, provider, cashier>>

PendingMeal(r) ==
    LET c == hold[r]
        s == req[r]
        li == s.lineItems[s.idx]
        found == { x \in Visible(meal_item, c) : x.line_item_id = li.line_item_id }
    IN
    /\ InFlight(r) /\ s.pc = "poMeal"
    /\ \/ /\ found = {}
          /\ req' = [req EXCEPT ![r].pc = "poAppetizer"]
       \/ \E mi \in found :
            req' = [req EXCEPT ![r] =
                       AfterOrderLine(s, OrderItem("Meal", NULL, mi.size,
                           FilterBoolean(<<mi.meat1, mi.meat2, mi.meat3>>), mi.side, NULL))]
    /\ ReleaseAndNext(r, c, FALSE, TRUE)
    /\ UNCHANGED <<tables, seqs, tx, txOwner>>
    /\ UNCHANGED <<catalog, provider, cashier>>

PendingAppetizer(r) ==
    LET c == hold[r]
        s == req[r]
        li == s.lineItems[s.idx]
        found == { x \in Visible(appetizer_item, c) : x.line_item_id = li.line_item_id }
    IN
    /\ InFlight(r) /\ s.pc = "poAppetizer"
    /\ \/ /\ found = {}
          /\ req' = [req EXCEPT ![r].pc = "poDrink"]
       \/ \E ai \in found :
            req' = [req EXCEPT ![r] =
                       AfterOrderLine(s, OrderItem("Appetizer", ai.name, NULL, << >>, NULL, NULL))]
    /\ ReleaseAndNext(r, c, FALSE, TRUE)
    /\ UNCHANGED <<tables, seqs, tx, txOwner>>
    /\ UNCHANGED <<catalog, provider, cashier>>

PendingDrink(r) ==
    LET c == hold[r]
        s == req[r]
        li == s.lineItems[s.idx]
        found == { x \in Visible(drink_item, c) : x.line_item_id = li.line_item_id }
    IN
    /\ InFlight(r) /\ s.pc = "poDrink"
    /\ \/ /\ found = {}
          /\ req' = [req EXCEPT ![r] =
                        AfterOrderLine(s, OrderItem("Unknown", NULL, NULL, << >>, NULL,
                                                    li.line_item_id))]
       \/ \E di \in found :
            req' = [req EXCEPT ![r] =
                       AfterOrderLine(s, OrderItem("Drink", di.name, di.size, << >>, NULL, NULL))]
    /\ ReleaseAndNext(r, c, FALSE, TRUE)
    /\ UNCHANGED <<tables, seqs, tx, txOwner>>
    /\ UNCHANGED <<catalog, provider, cashier>>

\* SELECT email FROM order_emails WHERE receipt_id = $1: no modelled request
\* writes to order_emails, so no row is found
PendingEmail(r) ==
    LET c == hold[r]
        s == req[r]
        s1 == AfterEmail(s, NULL)
    IN
    /\ InFlight(r) /\ s.pc = "poEmail"
    /\ req' = [req EXCEPT ![r] = s1]
    /\ ReleaseAndNext(r, c, FALSE, s1.pc # "done")
    /\ UNCHANGED <<tables, seqs, tx, txOwner>>
    /\ UNCHANGED <<catalog, provider, cashier>>

\* ------------------------------------------------------------ failing statements
\* A pool.query whose statement raises (a constraint violation, a lost
\* connection) releases its client with the error: the pool drops the client,
\* the connection closes and the server rolls back the transaction open on
\* it. The rejection lands in the handler's catch: processOrder goes on to
\* ROLLBACK, the receipt fetch answers 500. A rejection of the ROLLBACK
\* itself is raised inside the catch block and nothing answers the request.
\* The email lookup of the pending orders has a try of its own: the order
\* goes out without an email. runQuery turns a rejection into
\* { success: false }: the add endpoints answer 500 for their INSERT, and for
\* their SELECT MAX read `.rows[0]` of it, which throws outside any try, so
\* nothing answers the request.
StatementFails(r) ==
    LET c == hold[r]
        s == req[r]
        more == Transactional(s.kind) /\ s.pc # "ROLLBACK"
    IN
    /\ InFlight(r)
    /\ IF tx[c] = "open" THEN DbDiscard(c) ELSE UNCHANGED tables
    /\ EndTx(c)
    /\ req' = [req EXCEPT ![r] =
                  IF more THEN Catch(s)
                  ELSE IF Transactional(s.kind) THEN Respond(s, 0, 0, << >>)
                  ELSE IF s.pc = "poEmail" THEN AfterEmail(s, NULL)
                  ELSE IF s.pc = "selMax" THEN Respond(s, 0, 0, << >>)
                  ELSE Respond(s, 500, 0, << >>)]
    /\ ReleaseAndNext(r, c, TRUE,
                      more \/ (s.pc = "poEmail" /\ AfterEmail(s, NULL).pc # "done"))
    /\ UNCHANGED seqs
    /\ UNCHANGED <<catalog, provider, cashier>>

\* ------------------------------------------------------------ DELETE and UPDATE
\* A DELETE (or the old version of an updated row) on client c: inside c's
\* transaction a committed row stays for the other clients until COMMIT and
\* a row of the transaction itself is dropped; outside it the row is dropped.
RowsAfterDelete(T, c, doomed) ==
    IF tx[c] = "open" THEN T \ { row \in doomed : row.by = c } ELSE T \ doomed

GoneAfterDelete(c, doomed) ==
    IF tx[c] = "open"
    THEN [gone EXCEPT ![c] = @ \cup { row \in doomed : row.by = 0 }]
    ELSE gone

\* the statement waits while another client's open transaction holds a row
NotLocked(c, doomed) == \A d \in Clients \ {c} : doomed \cap gone[d] = {}

\* UPDATE receipt SET status = $1 WHERE receipt_id = $2, on client c
SetStatus(c, receipt_id, status) ==
    LET rows == { x \in Visible(receipt, c) : x.receipt_id = receipt_id } IN
    /\ NotLocked(c, rows)
    /\ receipt' = RowsAfterDelete(receipt, c, rows) \cup
                     { [x EXCEPT !.status = status, !.by = TxTag(c)] : x \in rows }
    /\ gone' = GoneAfterDelete(c, rows)

\* ------------------------------------------------------------ PUT /receipts/:receipt_id
\* an element of line_items; meats is NULL when the element has no such field
LineItem(type, name, size, meats, side, price) ==
    [type |-> type, name |-> name, size |-> size, meats |-> meats,
     side |-> side, price |-> price]

\* `item.meats[n] || null` (n counted from 1 here)
MeatOrNull(item, n) ==
    IF n <= Len(item.meats) /\ item.meats[n] # "" THEN item.meats[n] ELSE NULL

MutantPutVariantTable(type) == IF type = "Meal" THEN "meal_item" ELSE "none"

\* the type-specific table the switch on item.type inserts into
PutVariantTable(type) ==
    CASE type = "Meal"      -> "meal_item"
      [] type = "Drink"     -> "drink_item"
      [] type = "Appetizer" -> "appetizer_item"
      [] OTHER              -> "none"

\* where the handler goes once the statements of line_items[i] are all issued
AfterItem(s) ==
    IF s.i < Len(s.line_items)
    THEN [s EXCEPT !.pc = "putLineItem", !.i = s.i + 1]
    ELSE [s EXCEPT !.pc = "COMMIT"]

\* UPDATE receipt SET status = $1 WHERE receipt_id = $2; if (Array.isArray(line_items))
UpdateStatus(r) ==
    LET c == hold[r]
        s == req[r]
    IN
    /\ InFlight(r) /\ s.pc = "updStatus"
    /\ SetStatus(c, s.getId, s.status)
    /\ req' = [req EXCEPT ![r].pc = IF s.isArray THEN "selIds" ELSE "COMMIT"]
    /\ ReleaseAndNext(r, c, FALSE, TRUE)
    /\ UNCHANGED <<line_item, meal_item, drink_item, appetizer_item,
                   inventory, invPending, seqs, tx, txOwner>>
    /\ UNCHANGED <<catalog, provider, cashier>>

\* SELECT line_item_id FROM line_item WHERE receipt_id = $1 (PUT and DELETE)
SelectIds(r) ==
    LET c == hold[r]
        s == req[r]
        ids == { x.line_item_id :
                    x \in { y \in Visible(line_item, c) : y.receipt_id = s.getId } }
    IN
    /\ InFlight(r) /\ s.pc = "selIds"
    /\ req' = [req EXCEPT ![r].selIds = ids,
                          ![r].pc = IF s.kind = "delete" /\ ids = {}
                                    THEN "delLineItems" ELSE "delMeal"]
    /\ ReleaseAndNext(r, c, FALSE, TRUE)
    /\ UNCHANGED <<tables, seqs, tx, txOwner>>
    /\ UNCHANGED <<catalog, provider, cashier>>

\* DELETE FROM meal_item WHERE line_item_id = ANY($1::int[])
DeleteMealItems(r) ==
    LET c == hold[r]
        s == req[r]
        doomed == { x \in Visible(meal_item, c) : x.line_item_id \in s.selIds }
    IN
    /\ InFlight(r) /\ s.pc = "delMeal"
    /\ NotLocked(c, doomed)
    /\ meal_item' = RowsAfterDelete(meal_item, c, doomed)
    /\ gone' = GoneAfterDelete(c, doomed)
    /\ req' = [req EXCEPT ![r].pc = "delDrink"]
    /\ ReleaseAndNext(r, c, FALSE, TRUE)
    /\ UNCHANGED <<receipt, line_item, drink_item, appetizer_item,
                   inventory, invPending, seqs, tx, txOwner>>
    /\ UNCHANGED <<catalog, provider, cashier>>

\* DELETE FROM drink_item WHERE line_item_id = ANY($1::int[])
DeleteDrinkItems(r) ==
    LET c == hold[r]
        s == req[r]
        doomed == { x \in Visible(drink_item, c) : x.line_item_id \in s.selIds }
    IN
    /\ InFlight(r) /\ s.pc = "delDrink"
    /\ NotLocked(c, doomed)
    /\ drink_item' = RowsAfterDelete(drink_item, c, doomed)
    /\ gone' = GoneAfterDelete(c, doomed)
    /\ req' = [req EXCEPT ![r].pc = "delAppetizer"]
    /\ ReleaseAndNext(r, c, FALSE, TRUE)
    /\ UNCHANGED <<receipt, line_item, meal_item, appetizer_item,
                   inventory, invPending, seqs, tx, txOwner>>
    /\ UNCHANGED <<catalog, provider, cashier>>

\* DELETE FROM appetizer_item WHERE line_item_id = ANY($1::int[])
DeleteAppetizerItems(r) ==
    LET c == hold[r]
        s == req[r]
        doomed == { x \in Visible(appetizer_item, c) : x.line_item_id \in s.selIds }
    IN
    /\ InFlight(r) /\ s.pc = "delAppetizer"
    /\ NotLocked(c, doomed)
    /\ appetizer_item' = RowsAfterDelete(appetizer_item, c, doomed)
    /\ gone' = GoneAfterDelete(c, doomed)
    /\ req' = [req EXCEPT ![r].pc = "delLineItems"]
    /\ ReleaseAndNext(r, c, FALSE, TRUE)
    /\ UNCHANGED <<receipt, line_item, meal_item, drink_item,
                   inventory, invPending, seqs, tx, txOwner>>
    /\ UNCHANGED <<catalog, provider, cashier>>

\* DELETE FROM line_item WHERE receipt_id = $1 (PUT and DELETE)
DeleteLineItems(r) ==
    LET c == hold[r]
        s == req[r]
        doomed == { x \in Visible(line_item, c) : x.receipt_id = s.getId }
    IN
    /\ InFlight(r) /\ s.pc = "delLineItems"
    /\ NotLocked(c, doomed)
    /\ line_item' = RowsAfterDelete(line_item, c, doomed)
    /\ gone' = GoneAfterDelete(c, doomed)
    /\ req' = [req EXCEPT ![r] =
                  IF s.kind = "delete" THEN [s EXCEPT !.pc = "delReceipt"]
                  ELSE IF s.line_items = << >> THEN [s EXCEPT !.pc = "COMMIT"]
                  ELSE [s EXCEPT !.pc = "putLineItem", !.i = 1]]
    /\ ReleaseAndNext(r, c, FALSE, TRUE)
    /\ UNCHANGED <<receipt, meal_item, drink_item, appetizer_item,
                   inventory, invPending, seqs, tx, txOwner>>
    /\ UNCHANGED <<catalog, provider, cashier>>

\* INSERT INTO line_item (receipt_id, price) ... RETURNING line_item_id; then
\* the switch on item.type builds the next statement: `item.meats[0]` of a
\* Meal element without meats throws, and control enters the catch block.
PutLineItem(r) ==
    LET c == hold[r]
        s == req[r]
        item == s.line_items[s.i]
        s1 == [s EXCEPT !.lineItemId = line_item_seq,
                        !.lineItemIds = @ \cup {line_item_seq}]
    IN
    /\ InFlight(r) /\ s.pc = "putLineItem"
    /\ line_item' = line_item \cup
          { [line_item_id |-> line_item_seq, receipt_id |-> s.getId,
             price |-> item.price, by |-> TxTag(c)] }
    /\ line_item_seq' = NextVal(line_item_seq)
    /\ req' = [req EXCEPT ![r] =
                  IF item.type = "Meal" /\ item.meats = NULL THEN Catch(s1)
                  ELSE IF PutVariantTable(item.type) = "none" THEN AfterItem(s1)
                  ELSE [s1 EXCEPT !.pc = "putVariant"]]
    /\ ReleaseAndNext(r, c, FALSE, TRUE)
    /\ UNCHANGED <<receipt, meal_item, drink_item, appetizer_item,
                   inventory, invPending, gone, receipt_seq, tx, txOwner>>
    /\ UNCHANGED <<catalog, provider, cashier>>

\* the INSERT of the switch on item.type
PutVariant(r) ==
    LET c == hold[r]
        s == req[r]
        item == s.line_items[s.i]
        t == PutVariantTable(item.type)
    IN
    /\ InFlight(r) /\ s.pc = "putVariant"
    /\ meal_item' = IF t # "meal_item" THEN meal_item ELSE meal_item \cup
          { [line_item_id |-> s.lineItemId, size |-> item.size,
             price |-> item.price,
             meat1 |-> MeatOrNull(item, 1),
             meat2 |-> MeatOrNull(item, 2),
             meat3 |-> MeatOrNull(item, 3),
             side |-> item.side, by |-> TxTag(c)] }
    /\ drink_item' = IF t # "drink_item" THEN drink_item ELSE drink_item \cup
          { [line_item_id |-> s.lineItemId, name |-> item.name,
             price |-> item.price,
             size |-> IF item.size = NULL THEN "Regular" ELSE item.size,
             by |-> TxTag(c)] }
    /\ appetizer_item' = IF t # "appetizer_item" THEN appetizer_item
          ELSE appetizer_item \cup
          { [line_item_id |-> s.lineItemId, name |-> item.name,
             price |-> item.price, by |-> TxTag(c)] }
    /\ req' = [req EXCEPT ![r] = AfterItem(s)]
    /\ ReleaseAndNext(r, c, FALSE, TRUE)
    /\ UNCHANGED <<receipt, line_item, inventory, invPending, gone, seqs, tx, txOwner>>
    /\ UNCHANGED <<catalog, provider, cashier>>

\* ------------------------------------------------------------ DELETE /receipts/:receipt_id
\* DELETE FROM receipt WHERE receipt_id = $1
DeleteReceiptRow(r) ==
    LET c == hold[r]
        s == req[r]
        doomed == { x \in Visible(receipt, c) : x.receipt_id = s.getId }
    IN
    /\ InFlight(r) /\ s.pc = "delReceipt"
    /\ NotLocked(c, doomed)
    /\ receipt' = RowsAfterDelete(receipt, c, doomed)
    /\ gone' = GoneAfterDelete(c, doomed)
    /\ req' = [req EXCEPT ![r].pc = "COMMIT"]
    /\ ReleaseAndNext(r, c, FALSE, TRUE)
    /\ UNCHANGED <<line_item, meal_item, drink_item, appetizer_item,
                   inventory, invPending, seqs, tx, txOwner>>
    /\ UNCHANGED <<catalog, provider, cashier>>

\* ------------------------------------------------------------ POST /completeOrder
\* UPDATE receipt SET status = 'Fulfilled' WHERE receipt_id = $1; then, with
\* no email in the body, res.json({ success: true })
UpdateFulfilled(r) ==
    LET c == hold[r]
        s == req[r]
    IN
    /\ InFlight(r) /\ s.pc = "updFulfilled"
    /\ SetStatus(c, s.getId, "Fulfilled")
    /\ req' = [req EXCEPT ![r] =
                  IF s.email THEN [s EXCEPT !.pc = "sendMail"]
                  ELSE Respond(s, 200, 0, << >>)]
    /\ ReleaseAndNext(r, c, FALSE, FALSE)
    /\ UNCHANGED <<line_item, meal_item, drink_item, appetizer_item,
                   inventory, invPending, seqs, tx, txOwner>>
    /\ UNCHANGED <<catalog, provider, cashier>>

\* await transporter.sendMail(mailOptions): the mail goes out and the handler
\* answers success, or sendMail rejects and the catch block answers 500
SendMail(r) ==
    /\ req[r].pc = "sendMail"
    /\ \/ req' = [req EXCEPT ![r] = Respond(req[r], 200, 0, << >>)]
       \/ req' = [req EXCEPT ![r] = Respond(req[r], 500, 0, << >>)]
    /\ UNCHANGED <<tables, seqs, tx, txOwner, pool>>
    /\ UNCHANGED <<catalog, provider, cashier>>

\* ------------------------------------------------------------ requests arrive
Started(r) == req[r].pc # "idle"
Over(r)    == req[r].pc \in {"idle", "done"}

\* slots are taken in order
NextSlot(r) == ~Started(r) /\ \A s \in Reqs : s < r => Started(s)

PostProcessOrder(r, orderList, totalPrice) ==
    /\ NextSlot(r)
    /\ req' = [req EXCEPT ![r] = [IdleReq EXCEPT !.kind = "checkout", !.pc = "BEGIN",
                                     !.orderList = orderList, !.totalPrice = totalPrice]]
    /\ Acquire(r)
    /\ UNCHANGED <<tables, seqs, tx, txOwner>>
    /\ UNCHANGED <<catalog, provider, cashier>>

GetReceipt(r, receipt_id) ==
    /\ NextSlot(r)
    /\ req' = [req EXCEPT ![r] = [IdleReq EXCEPT !.kind = "get", !.pc = "selReceipt",
                                     !.getId = receipt_id]]
    /\ Acquire(r)
    /\ UNCHANGED <<tables, seqs, tx, txOwner>>
    /\ UNCHANGED <<catalog, provider, cashier>>

Statement(r) ==
    \/ Begin(r) \/ InsertReceipt(r) \/ InsertLineItem(r) \/ InsertVariant(r)
    \/ SelectIngredients(r) \/ UpdateInventory(r) \/ Commit(r) \/ Rollback(r)
    \/ SelectReceipt(r) \/ SelectLineItems(r) \/ SelectMeal(r)
    \/ SelectAppetizer(r) \/ SelectDrink(r)
    \/ StatementFails(r)

\* ---- requests in flight together (the pool may run out of clients)
ConcCheckout(r) == \E orderList \in ConcCarts : PostProcessOrder(r, orderList, 7)
ConcGet(r)      == \E id \in 1..receipt_seq : GetReceipt(r, id)

Next == \E r \in Reqs : ConcCheckout(r) \/ ConcGet(r) \/ Statement(r)

Spec == Init /\ [][Next]_vars

\* ---- one request at a time: a payload, then the same payload again or a fetch
SeqSlots == 1..SeqReqs
Quiet    == \A r \in Reqs : Over(r)

Submit(r) ==
    /\ Quiet /\ \A s \in Reqs : req[s].kind # "checkout"
    /\ \E orderList \in Carts, totalPrice \in Totals :
          PostProcessOrder(r, orderList, totalPrice)

Resubmit(r) ==
    /\ Quiet
    /\ \E s \in Reqs : /\ req[s].kind = "checkout"
                       /\ PostProcessOrder(r, req[s].orderList, req[s].totalPrice)

Fetch(r) == Quiet /\ \E id \in 1..receipt_seq : GetReceipt(r, id)

NextSeq == \E r \in SeqSlots : Submit(r) \/ Resubmit(r) \/ Fetch(r) \/ Statement(r)

SpecSeq == Init /\ [][NextSeq]_vars

\* ------------------------------------------------------------ receipts are edited
\* The edits start where two checkouts of one cart have left the database
\* (receipts 1 and 2, line items 1..4) and the server holds no connection.
EditCart ==
    << Entry("Meal", NULL, <<"OrangeChicken", "OrangeChicken">>, "FriedRice", "Plate", 9, 1),
       Entry("appetizer", "EggRoll", <<>>, NULL, NULL, 3, 1) >>

EditReceipts ==
    { [receipt_id |-> n, totalamount |-> 12, status |-> StatusDefault, by |-> 0] : n \in {1, 2} }

EditLineItems ==
    { [line_item_id |-> 1, receipt_id |-> 1, price |-> 9, by |-> 0],
      [line_item_id |-> 2, receipt_id |-> 1, price |-> 3, by |-> 0],
      [line_item_id |-> 3, receipt_id |-> 2, price |-> 9, by |-> 0],
      [line_item_id |-> 4, receipt_id |-> 2, price |-> 3, by |-> 0] }

EditMealItems ==
    { [line_item_id |-> n, size |-> "Plate", price |-> 9, meat1 |-> "OrangeChicken",
       meat2 |-> "OrangeChicken", meat3 |-> NULL, side |-> "FriedRice", by |-> 0] :
         n \in {1, 3} }

EditAppetizerItems ==
    { [line_item_id |-> n, name |-> "EggRoll", price |-> 3, by |-> 0] : n \in {2, 4} }

EditStart ==
    /\ receipt = EditReceipts /\ line_item = EditLineItems
    /\ meal_item = EditMealItems /\ drink_item = {}
    /\ appetizer_item = EditAppetizerItems
    /\ inventory = [x \in InvIds |-> IF x = "cup" THEN InitQty ELSE InitQty - 6]
    /\ receipt_seq = 3 /\ line_item_seq = 5

InitEdit ==
    /\ ProviderStart /\ CashierStart /\ catalog = CatalogStart
    /\ EditStart
    /\ invPending = [c \in Clients |-> NoPending]
    /\ gone = [c \in Clients |-> {}]
    /\ tx = [c \in Clients |-> "none"]
    /\ txOwner = [c \in Clients |-> 0]
    /\ live = {} /\ idle = << >> /\ waitq = << >>
    /\ hold = [r \in Reqs |-> 0]
    /\ req = [r \in Reqs |-> IdleReq]

PutReceipt(r, receipt_id, status, isArray, line_items) ==
    /\ NextSlot(r)
    /\ req' = [req EXCEPT ![r] = [IdleReq EXCEPT !.kind = "put", !.pc = "BEGIN",
                                     !.getId = receipt_id, !.status = status,
                                     !.isArray = isArray, !.line_items = line_items]]
    /\ Acquire(r)
    /\ UNCHANGED <<tables, seqs, tx, txOwner>>
    /\ UNCHANGED <<catalog, provider, cashier>>

DeleteReceipt(r, receipt_id) ==
    /\ NextSlot(r)
    /\ req' = [req EXCEPT ![r] = [IdleReq EXCEPT !.kind = "delete", !.pc = "BEGIN",
                                     !.getId = receipt_id]]
    /\ Acquire(r)
    /\ UNCHANGED <<tables, seqs, tx, txOwner>>
    /\ UNCHANGED <<catalog, provider, cashier>>

CompleteOrder(r, receipt_id, email) ==
    /\ NextSlot(r)
    /\ req' = [req EXCEPT ![r] = [IdleReq EXCEPT !.kind = "complete", !.pc = "updFulfilled",
                                     !.getId = receipt_id, !.email = email]]
    /\ Acquire(r)
    /\ UNCHANGED <<tables, seqs, tx, txOwner>>
    /\ UNCHANGED <<catalog, provider, cashier>>

EditStatement(r) ==
    \/ Statement(r)
    \/ UpdateStatus(r) \/ SelectIds(r) \/ DeleteMealItems(r) \/ DeleteDrinkItems(r)
    \/ DeleteAppetizerItems(r) \/ DeleteLineItems(r) \/ PutLineItem(r) \/ PutVariant(r)
    \/ DeleteReceiptRow(r) \/ UpdateFulfilled(r) \/ SendMail(r)

\* what the receipt form and other callers send
MealItem      == LineItem("Meal", NULL, "Bowl", <<"OrangeChicken">>, "FriedRice", 8)
NewMealItem   == LineItem("Meal", NULL, NULL, NULL, NULL, 0)
DrinkItem     == LineItem("Drink", "MediumDrink", NULL, NULL, NULL, 2)
AppetizerItem == LineItem("Appetizer", "EggRoll", NULL, NULL, NULL, 3)
UnknownItem   == LineItem("Unknown", NULL, NULL, NULL, NULL, 3)

EditLists ==
    { << >>, << DrinkItem >>, << MealItem, AppetizerItem >>, << NewMealItem >>,
      << DrinkItem, NewMealItem >>, << UnknownItem, DrinkItem >> }

Statuses == {"Fulfilled", "Cancelled", "Refunded"}

\* ids of receipts that exist, and the next id of the sequence, which does not
EditIds == 1..receipt_seq

\* ---- edits one at a time
SeqPut(r) ==
    /\ Quiet
    /\ \E id \in EditIds, status \in Statuses :
          \/ \E line_items \in EditLists : PutReceipt(r, id, status, TRUE, line_items)
          \/ PutReceipt(r, id, status, FALSE, << >>)

SeqDelete(r)   == Quiet /\ \E id \in EditIds : DeleteReceipt(r, id)
SeqComplete(r) == Quiet /\ \E id \in EditIds, email \in BOOLEAN : CompleteOrder(r, id, email)
SeqGet(r)      == Quiet /\ \E id \in EditIds : GetReceipt(r, id)
SeqCheckout(r) == Quiet /\ PostProcessOrder(r, EditCart, 12)

NextEditSeq ==
    \E r \in Reqs : \/ SeqPut(r) \/ SeqDelete(r) \/ SeqComplete(r) \/ SeqGet(r)
                    \/ SeqCheckout(r) \/ EditStatement(r)

SpecEditSeq == InitEdit /\ [][NextEditSeq]_vars

\* ---- edits in flight together
ConcLists == { << DrinkItem >>, << NewMealItem >> }

EditPut(r) ==
    \E id \in {1, 3}, line_items \in ConcLists :
        PutReceipt(r, id, "Fulfilled", TRUE, line_items)

EditDelete(r)   == \E id \in {1, 2} : DeleteReceipt(r, id)
EditComplete(r) == \E email \in BOOLEAN : CompleteOrder(r, 1, email)
EditGet(r)      == \E id \in {1, 2} : GetReceipt(r, id)
EditCheckout(r) == PostProcessOrder(r, EditCart, 12)

NextEdit ==
    \E r \in Reqs : \/ EditPut(r) \/ EditDelete(r) \/ EditComplete(r) \/ EditGet(r)
                    \/ EditCheckout(r) \/ EditStatement(r)

SpecEdit == InitEdit /\ [][NextEdit]_vars

\* ------------------------------------------------------------ the kitchen
\* The kitchen starts where seven checkouts have left the database: the two
\* of the edits, one of a drink and an entry of a type no variant table takes
\* (line items 5 and 6), then four of an empty cart (a receipt and no line
\* item), and receipt 2 has been completed.
KitchenIds == 1..7

KitchenLineItems ==
    EditLineItems \cup { [line_item_id |-> n, receipt_id |-> 3, price |-> 2, by |-> 0] :
                            n \in {5, 6} }

KitchenDrinkItems ==
    { [line_item_id |-> 5, name |-> "MediumDrink", price |-> 2, size |-> "Regular", by |-> 0] }

KitchenReceipts ==
    { [receipt_id |-> n, totalamount |-> IF n <= 2 THEN 12 ELSE IF n = 3 THEN 4 ELSE 0,
       status |-> IF n = 2 THEN "Fulfilled" ELSE StatusDefault, by |-> 0] : n \in KitchenIds }

InitKitchen ==
    /\ ProviderStart /\ CashierStart /\ catalog = CatalogStart
    /\ receipt = KitchenReceipts /\ line_item = KitchenLineItems
    /\ meal_item = EditMealItems /\ drink_item = KitchenDrinkItems
    /\ appetizer_item = EditAppetizerItems
    /\ inventory = [x \in InvIds |-> IF x = "cup" THEN InitQty - 1 ELSE InitQty - 6]
    /\ receipt_seq = 8 /\ line_item_seq = 7
    /\ invPending = [c \in Clients |-> NoPending]
    /\ gone = [c \in Clients |-> {}]
    /\ tx = [c \in Clients |-> "none"]
    /\ txOwner = [c \in Clients |-> 0]
    /\ live = {} /\ idle = << >> /\ waitq = << >>
    /\ hold = [r \in Reqs |-> 0]
    /\ req = [r \in Reqs |-> IdleReq]

GetPendingOrders(r) ==
    /\ NextSlot(r)
    /\ req' = [req EXCEPT ![r] = [IdleReq EXCEPT !.kind = "pending", !.pc = "poReceipts"]]
    /\ Acquire(r)
    /\ UNCHANGED <<tables, seqs, tx, txOwner>>
    /\ UNCHANGED <<catalog, provider, cashier>>

\* the statuses the receipt form offers
FormStatuses == {"Pending", "Fulfilled", "Cancelled"}

\* Completions and status edits may be in flight together; the kitchen's
\* fetch runs alone, after the requests before it have been answered.
NoFetch == \A o \in Reqs : req[o].kind = "pending" => Over(o)

KitchenComplete(r) ==
    NoFetch /\ \E id \in KitchenIds, email \in BOOLEAN : CompleteOrder(r, id, email)
KitchenPut(r) ==
    NoFetch /\ \E id \in KitchenIds, status \in FormStatuses :
                   PutReceipt(r, id, status, FALSE, << >>)
KitchenPending(r) == Quiet /\ GetPendingOrders(r)

KitchenStatement(r) ==
    \/ Begin(r) \/ UpdateStatus(r) \/ Commit(r) \/ Rollback(r) \/ StatementFails(r)
    \/ UpdateFulfilled(r) \/ SendMail(r)
    \/ SelectPending(r) \/ PendingLineItems(r) \/ PendingMeal(r) \/ PendingAppetizer(r)
    \/ PendingDrink(r) \/ PendingEmail(r)

NextKitchen ==
    \E r \in Reqs : \/ KitchenComplete(r) \/ KitchenPut(r) \/ KitchenPending(r)
                    \/ KitchenStatement(r)

SpecKitchen == InitKitchen /\ [][NextKitchen]_vars


\* ======================================================================
\* Properties
\* ======================================================================
Succeeded(r) == req[r].kind = "checkout" /\ req[r].pc = "done" /\ req[r].resp.status = 200
Failed(r)    == req[r].kind = "checkout" /\ req[r].pc = "done" /\ req[r].resp.status # 200
Fetched(g)   == req[g].kind = "get" /\ req[g].pc = "done" /\ req[g].resp.status = 200

Committed(T) == { row \in T : row.by = 0 }
Variants     == meal_item \cup drink_item \cup appetizer_item

RECURSIVE SumOver(_, _)
SumOver(S, f) ==
    IF S = {} THEN 0
    ELSE LET x == CHOOSE y \in S : TRUE IN f[x] + SumOver(S \ {x}, f)

\* the orderList with each entry repeated quantity times (1 when it has none)
RECURSIVE Expanded(_)
Expanded(orderList) ==
    IF orderList = << >> THEN << >>
    ELSE LET e == Head(orderList)
             n == IF e.quantity = 0 THEN 1 ELSE e.quantity
         IN  [j \in 1..n |-> e] \o Expanded(Tail(orderList))

\* units of inventory item x that one sale of the entry requires: the recipe
\* rows of the menu entries it names (a meal: its entrees and its side)
UnitsPerSale(e, x) ==
    LET names == IF e.type = "Meal"
                 THEN ({ e.entrees[n] : n \in DOMAIN e.entrees } \cup {e.side}) \ {NULL}
                 ELSE {e.name} \ {NULL}
        rowsOf(name) == { <<name, n>> : n \in DOMAIN RecipeRows(name) }
        rows == UNION { rowsOf(name) : name \in names }
        units == [p \in rows |-> IF RecipeRows(p[1])[p[2]].inventory_id = x
                                  THEN RecipeRows(p[1])[p[2]].quantity ELSE 0]
    IN  SumOver(rows, units)

\* what a cart takes from inventory item x
CartUnits(orderList, x) ==
    LET one == [n \in DOMAIN orderList |->
                   UnitsPerSale(orderList[n], x)
                     * (IF orderList[n].quantity = 0 THEN 1 ELSE orderList[n].quantity)]
    IN  SumOver(DOMAIN orderList, one)

SucceededUnits(x) ==
    LET one == [r \in Reqs |-> CartUnits(req[r].orderList, x)]
    IN  SumOver({ r \in Reqs : Succeeded(r) }, one)

\* C1: a checkout that failed has left nothing behind: no receipt row, no
\* line_item row, no variant row of its own, and, once no request is running
\* and no checkout has succeeded, the inventory is what it was.
C1_AtomicOnFailure ==
    /\ \A r \in Reqs : Failed(r) =>
          /\ \A x \in Committed(receipt) : x.receipt_id # req[r].receiptId
          /\ \A x \in Committed(line_item) : x.line_item_id \notin req[r].lineItemIds
          /\ \A x \in Committed(Variants) : x.line_item_id \notin req[r].lineItemIds
    /\ (Quiet /\ \A r \in Reqs : ~Succeeded(r)) =>
          \A x \in InvIds : inventory[x] = InitQty

\* C2: a fetch that found the receipt of a checkout returns all the line
\* items of that checkout, each with its variant.
C2_NoPartialReceipt ==
    \A g \in Reqs, r \in Reqs :
        (Fetched(g) /\ req[r].kind = "checkout" /\ req[r].receiptId = req[g].getId) =>
            /\ Len(req[g].resp.body) = Len(Expanded(req[r].orderList))
            /\ \A n \in DOMAIN req[g].resp.body : req[g].resp.body[n].type # "Unknown"

\* C3: a checkout past its BEGIN keeps its connection: it is not waiting for
\* a client, and its statement runs on the client its BEGIN ran on, inside
\* the transaction that BEGIN opened.
C3_OneConnectionPerTransaction ==
    \A r \in Reqs :
        (req[r].kind = "checkout" /\ req[r].beginOn # 0 /\ req[r].pc \notin {"ROLLBACK", "done"}) =>
            /\ hold[r] = req[r].beginOn
            /\ tx[hold[r]] = "open"
            /\ txOwner[hold[r]] = r

RECURSIVE Ascending(_)
Ascending(S) ==
    IF S = {} THEN << >>
    ELSE LET least == MinOf(S) IN << least >> \o Ascending(S \ {least})

\* the line item ids a checkout drew, in the order it drew them
DrawnIds(r) == Ascending(req[r].lineItemIds)

\* the variant table the input contract gives a cart entry type
ContractTable(type) ==
    CASE type = "Meal"      -> "meal_item"
      [] type = "Drink"     -> "drink_item"
      [] type = "drink"     -> "drink_item"
      [] type = "Appetizer" -> "appetizer_item"
      [] OTHER              -> "none"

\* committed rows of a variant table with one of the line item ids and the price
VariantRows(table, ids, price) ==
    CASE table = "meal_item" ->
            Cardinality({ x \in Committed(meal_item) :
                             x.line_item_id \in ids /\ x.price = price })
      [] table = "drink_item" ->
            Cardinality({ x \in Committed(drink_item) :
                             x.line_item_id \in ids /\ x.price = price })
      [] table = "appetizer_item" ->
            Cardinality({ x \in Committed(appetizer_item) :
                             x.line_item_id \in ids /\ x.price = price })
      [] OTHER -> 0

\* committed rows of each variant table keyed by a line item id
RowsKeyedBy(id) ==
    [meal_item |-> Cardinality({ x \in Committed(meal_item) : x.line_item_id = id }),
     drink_item |-> Cardinality({ x \in Committed(drink_item) : x.line_item_id = id }),
     appetizer_item |-> Cardinality({ x \in Committed(appetizer_item) : x.line_item_id = id })]

QuantityOf(e) == IF e.quantity = 0 THEN 1 ELSE e.quantity

\* the ids drawn for entry n of the cart: those after the ids of the entries before it
IdsOfEntry(r, n) ==
    LET before == Len(Expanded(SubSeq(req[r].orderList, 1, n - 1)))
        ids == DrawnIds(r)
    IN  { ids[j] : j \in { j \in DOMAIN ids :
                              before < j /\ j <= before + QuantityOf(req[r].orderList[n]) } }

\* C5: after successful checkouts of a cart of one entry, each inventory item
\* is down by units-per-sale times quantity per checkout, and an item that is
\* no ingredient of the entry is unchanged.
C5_DecrementCorrect ==
    (Quiet /\ \A r \in Reqs : req[r].kind = "checkout" => Len(req[r].orderList) = 1) =>
        \A x \in InvIds :
            LET one == [r \in Reqs |->
                           IF Succeeded(r)
                           THEN UnitsPerSale(req[r].orderList[1], x)
                                   * QuantityOf(req[r].orderList[1])
                           ELSE 0]
            IN  inventory[x] = InitQty - SumOver(Reqs, one)

C5_Witness ==
    /\ Quiet
    /\ \E r \in Reqs :
          /\ Succeeded(r) /\ Len(req[r].orderList) = 1
          /\ req[r].orderList[1].type = "Meal" /\ req[r].orderList[1].quantity = 2
          /\ req[r].orderList[1].entrees = <<"OrangeChicken", "OrangeChicken">>
          /\ \A s \in Reqs : s # r => ~Succeeded(s)
    /\ inventory["chicken"] = InitQty - 4
    /\ inventory["rice"] = InitQty - 2
    /\ inventory["cup"] = InitQty

\* C6: a successful checkout leaves, for every cart entry of quantity q, q
\* line_item rows with the receipt's id and the entry's price, and q rows with
\* the entry's price in the entry's variant table.
C6_QuantityExpansion ==
    \A r \in Reqs : Succeeded(r) =>
        \A n \in DOMAIN req[r].orderList :
            LET e == req[r].orderList[n]
                ids == IdsOfEntry(r, n)
            IN  /\ Cardinality({ x \in Committed(line_item) :
                                    /\ x.line_item_id \in ids
                                    /\ x.receipt_id = req[r].receiptId
                                    /\ x.price = e.price }) = QuantityOf(e)
                /\ ContractTable(e.type) # "none" =>
                      VariantRows(ContractTable(e.type), ids, e.price) = QuantityOf(e)

\* C7: after a successful checkout of Meal, Drink, drink and Appetizer
\* entries, every line item of the receipt has one variant row in all, in
\* the table of its entry's type.
C7_OneVariantPerLineItem ==
    \A r \in Reqs :
        (/\ Succeeded(r)
         /\ \A n \in DOMAIN req[r].orderList :
               req[r].orderList[n].type \in {"Meal", "Drink", "drink", "Appetizer"}) =>
            LET ids == DrawnIds(r)
                exp == Expanded(req[r].orderList)
            IN  /\ Len(ids) = Len(exp)
                /\ \A j \in DOMAIN ids :
                      LET n == RowsKeyedBy(ids[j]) IN
                      /\ n.meal_item + n.drink_item + n.appetizer_item = 1
                      /\ n[ContractTable(exp[j].type)] = 1

\* what a cart entry and a fetched line item say of an item
OfEntry(e) ==
    [type |-> e.type,
     name |-> IF e.type = "Meal" THEN NULL ELSE e.name,
     meats |-> IF e.type = "Meal" THEN FilterBoolean(e.entrees) ELSE << >>,
     side |-> IF e.type = "Meal" THEN e.side ELSE NULL,
     price |-> e.price]

OfItem(it) ==
    [type |-> it.type, name |-> it.name, meats |-> it.meats, side |-> it.side,
     price |-> it.price]

Count(seq, v) == Cardinality({ j \in DOMAIN seq : seq[j] = v })

SameBag(a, b) ==
    /\ Len(a) = Len(b)
    /\ \A j \in DOMAIN a : Count(a, a[j]) = Count(b, a[j])

\* C8: the fetch of the receipt of a successful checkout of Meal, Drink and
\* Appetizer entries returns the quantity-expanded cart as a multiset.
C8_RoundTrip ==
    \A g \in Reqs, r \in Reqs :
        (/\ Fetched(g) /\ Succeeded(r) /\ req[r].receiptId = req[g].getId
         /\ \A n \in DOMAIN req[r].orderList :
               req[r].orderList[n].type \in {"Meal", "Drink", "Appetizer"}) =>
            LET exp  == Expanded(req[r].orderList)
                body == req[g].resp.body
            IN  SameBag([j \in DOMAIN exp |-> OfEntry(exp[j])],
                        [j \in DOMAIN body |-> OfItem(body[j])])

\* C9: a checkout that is over has answered: with the id of the receipt row
\* it inserted and committed, or with a 500.
C9_OneResponse ==
    \A r \in Reqs : (req[r].kind = "checkout" /\ req[r].pc = "done") =>
        \/ /\ req[r].resp.status = 200
           /\ req[r].resp.result = req[r].receiptId
           /\ \E x \in Committed(receipt) : x.receipt_id = req[r].resp.result
        \/ req[r].resp.status = 500

\* the rows a receipt has, without their ids
LinePrices(r) ==
    LET ids == DrawnIds(r) IN
    [j \in DOMAIN ids |->
        { x.price : x \in { y \in Committed(line_item) :
                               y.line_item_id = ids[j] /\ y.receipt_id = req[r].receiptId } }]

VariantCounts(r) ==
    LET ids == DrawnIds(r) IN [j \in DOMAIN ids |-> RowsKeyedBy(ids[j])]

\* C10: the same payload submitted twice, both times with success, gives two
\* receipts with distinct ids, each with its own line items (one per unit of
\* quantity) and the same variant rows, and takes the cart from the inventory twice.
C10_NotIdempotent ==
    \A r1 \in Reqs, r2 \in Reqs :
        (/\ r1 < r2 /\ Succeeded(r1) /\ Succeeded(r2) /\ Quiet
         /\ req[r1].orderList = req[r2].orderList
         /\ req[r1].totalPrice = req[r2].totalPrice) =>
            /\ req[r1].receiptId # req[r2].receiptId
            /\ \A r \in {r1, r2} :
                  /\ \E x \in Committed(receipt) :
                        x.receipt_id = req[r].receiptId /\ x.totalamount = req[r].totalPrice
                  /\ Cardinality({ x \in Committed(line_item) :
                                      x.receipt_id = req[r].receiptId })
                        = Len(Expanded(req[r].orderList))
                  /\ \A j \in DOMAIN LinePrices(r) : LinePrices(r)[j] # {}
            /\ req[r1].lineItemIds \cap req[r2].lineItemIds = {}
            /\ LinePrices(r1) = LinePrices(r2)
            /\ VariantCounts(r1) = VariantCounts(r2)
            /\ \A x \in InvIds :
                  inventory[x] = InitQty - 2 * CartUnits(req[r1].orderList, x)

C10_Witness ==
    /\ Quiet
    /\ Succeeded(1) /\ Succeeded(2)
    /\ req[1].orderList = req[2].orderList
    /\ Len(req[1].orderList) = 2
    /\ req[1].orderList[1].type = "Drink" /\ req[1].orderList[1].quantity = 2
    /\ Cardinality(Committed(receipt)) = 2
    /\ Cardinality(Committed(drink_item)) >= 4
    /\ inventory["cup"] <= InitQty - 4


\* the sum of price times quantity over a cart
RECURSIVE CartSum(_)
CartSum(orderList) ==
    IF orderList = << >> THEN 0
    ELSE Head(orderList).price * QuantityOf(Head(orderList)) + CartSum(Tail(orderList))

\* C11: the receipt of a successful checkout carries the request's totalPrice
\* as its totalamount, whatever the cart sums to; the line items and their
\* variant rows carry the entries' prices, and the inventory is what the cart
\* takes, whatever the totalPrice.
C11_TotalIsCallerSupplied ==
    /\ \A r \in Reqs : Succeeded(r) =>
          /\ \A x \in Committed(receipt) :
                x.receipt_id = req[r].receiptId => x.totalamount = req[r].totalPrice
          /\ \E x \in Committed(receipt) : x.receipt_id = req[r].receiptId
          /\ LET exp == Expanded(req[r].orderList) IN
             /\ Len(exp) = Len(DrawnIds(r))
             /\ \A j \in DOMAIN exp : LinePrices(r)[j] = {exp[j].price}
    /\ Quiet => \A x \in InvIds : inventory[x] = InitQty - SucceededUnits(x)

C11_Witness ==
    \E r \in Reqs :
        /\ Succeeded(r)
        /\ req[r].totalPrice = 12
        /\ CartSum(req[r].orderList) = 4
        /\ \E x \in Committed(receipt) :
              x.receipt_id = req[r].receiptId /\ x.totalamount = 12


\* a Meal entry none of whose entree slots names an entree
NoEntrees(e) ==
    /\ e.type = "Meal"
    /\ \A n \in DOMAIN e.entrees : e.entrees[n] \in {NULL, ""}

\* the units of inventory item x the recipe of a menu name takes
UnitsOfName(name, x) ==
    LET rows == RecipeRows(name)
        units == [n \in DOMAIN rows |->
                     IF rows[n].inventory_id = x THEN rows[n].quantity ELSE 0]
    IN  SumOver(DOMAIN rows, units)

\* C12: for a Meal entry whose entree slots are all null, empty or missing,
\* the ingredient rows the checkout reads are those of the entry's side, and
\* after successful checkouts of such entries every inventory item is down by
\* what the sides take and by nothing else.
C12_NullEntrees ==
    /\ \A r \in Reqs :
          (/\ req[r].kind = "checkout" /\ req[r].pc = "updInventory"
           /\ NoEntrees(req[r].orderList[req[r].i])) =>
              req[r].ingredientList = RecipeRows(req[r].orderList[req[r].i].side)
    /\ (/\ Quiet
        /\ \A r \in Reqs : \A n \in DOMAIN req[r].orderList :
              NoEntrees(req[r].orderList[n])) =>
          \A x \in InvIds :
              LET taken == [r \in Reqs |->
                     IF Succeeded(r)
                     THEN LET one == [n \in DOMAIN req[r].orderList |->
                                         UnitsOfName(req[r].orderList[n].side, x)
                                            * QuantityOf(req[r].orderList[n])]
                          IN  SumOver(DOMAIN req[r].orderList, one)
                     ELSE 0]
              IN  inventory[x] = InitQty - SumOver(Reqs, taken)

C12_Witness ==
    /\ Quiet
    /\ \E r \in Reqs :
          /\ Succeeded(r)
          /\ req[r].orderList =
                << Entry("Meal", NULL, <<NULL, NULL, NULL>>, "FriedRice", "Bowl", 8, 2) >>
          /\ \A s \in Reqs : s # r => req[s].kind # "checkout"
    /\ inventory["rice"] = InitQty - 2
    /\ inventory["chicken"] = InitQty
    /\ inventory["cup"] = InitQty


\* ---- receipts are edited
\* what every connection sees of a receipt: its status, its line items and
\* the variant rows keyed by them
RowsOf(id, R, L, M, D, A) ==
    LET lines == { x \in L : x.receipt_id = id }
        ids == { x.line_item_id : x \in lines }
    IN  [status |-> { x.status : x \in { y \in R : y.receipt_id = id } },
         line_items |-> lines,
         meal_items |-> { x \in M : x.line_item_id \in ids },
         drink_items |-> { x \in D : x.line_item_id \in ids },
         appetizer_items |-> { x \in A : x.line_item_id \in ids }]

StateOf(id) ==
    RowsOf(id, Committed(receipt), Committed(line_item), Committed(meal_item),
           Committed(drink_item), Committed(appetizer_item))

\* the same before any edit
StartOf(id) ==
    RowsOf(id, EditReceipts, EditLineItems, EditMealItems, {}, EditAppetizerItems)

\* r is about a receipt that was there before the edits, and no request but
\* r writes to that receipt
OnlyWriter(r) ==
    /\ \E x \in EditReceipts : x.receipt_id = req[r].getId
    /\ \A o \in Reqs \ {r} :
          req[o].kind \in {"put", "delete", "complete"} => req[o].getId # req[r].getId

Answered(r, kind)    == req[r].kind = kind /\ req[r].pc = "done" /\ req[r].resp.status = 200
NotAnswered(r, kind) == req[r].kind = kind /\ req[r].pc = "done" /\ req[r].resp.status # 200

\* C13: once a receipt replace that failed is over, the receipt's status, its
\* line items and their variant rows are what they were before the request.
C13_ReplaceAllOrNothing ==
    \A r \in Reqs :
        (Quiet /\ NotAnswered(r, "put") /\ OnlyWriter(r)) =>
            StateOf(req[r].getId) = StartOf(req[r].getId)

\* the ids of the line items a receipt had before the edits
StartIds(id) == { x.line_item_id : x \in StartOf(id).line_items }

\* the receipts that were there before the edits and that no request but r writes to
Untouched(r) ==
    { x.receipt_id : x \in
        { y \in EditReceipts :
             /\ y.receipt_id # req[r].getId
             /\ \A o \in Reqs \ {r} :
                   req[o].kind \in {"put", "delete", "complete"} =>
                       req[o].getId # y.receipt_id } }

NoRows ==
    [status |-> {}, line_items |-> {}, meal_items |-> {}, drink_items |-> {},
     appetizer_items |-> {}]

\* C15: once a receipt delete that answered success is over, the receipt row,
\* its line items and the variant rows keyed by them are gone and the receipts
\* no request writes to are as they were; once a receipt delete that failed
\* is over, the receipt, its line items and their variant rows are all there.
C15_CascadingDelete ==
    \A r \in Reqs :
        (Quiet /\ OnlyWriter(r)) =>
            LET id == req[r].getId IN
            /\ Answered(r, "delete") =>
                  /\ StateOf(id) = NoRows
                  /\ \A x \in Committed(meal_item) \cup Committed(drink_item)
                               \cup Committed(appetizer_item) :
                         x.line_item_id \notin StartIds(id)
                  /\ \A o \in Untouched(r) : StateOf(o) = StartOf(o)
            /\ NotAnswered(r, "delete") => StateOf(id) = StartOf(id)

\* C16: every committed line_item row has the receipt_id of one committed
\* receipt row, and every committed meal_item, drink_item and appetizer_item
\* row has the line_item_id of a committed line_item row.
C16_ReferentialInvariant ==
    /\ \A x \in Committed(line_item) :
          Cardinality({ y \in Committed(receipt) : y.receipt_id = x.receipt_id }) = 1
    /\ \A x \in Committed(meal_item) \cup Committed(drink_item)
                 \cup Committed(appetizer_item) :
          \E y \in Committed(line_item) : y.line_item_id = x.line_item_id

\* the statuses the data model gives a receipt
StatusDomain == {"Pending", "Fulfilled", "Cancelled"}

\* C17: every committed receipt row has the status Pending, Fulfilled or
\* Cancelled.
C17_StatusDomain ==
    \A x \in Committed(receipt) : x.status \in StatusDomain

\* the type values of the input contract and of the case labels of processOrder
RecognizedTypes == {"Meal", "Drink", "drink", "Appetizer", "appetizer"}

\* a cart entry whose type is none of them
Unrecognized(e) == e.type \notin RecognizedTypes

\* the state part of C19: what a successful checkout leaves of such an entry,
\* and what a fetch of its receipt reports
UnknownRows ==
    \A r \in Reqs : Succeeded(r) =>
        \A n \in DOMAIN req[r].orderList :
            LET e == req[r].orderList[n]
                ids == IdsOfEntry(r, n)
            IN  Unrecognized(e) =>
                  /\ Cardinality({ x \in Committed(line_item) :
                                      /\ x.line_item_id \in ids
                                      /\ x.receipt_id = req[r].receiptId
                                      /\ x.price = e.price }) = QuantityOf(e)
                  /\ \A id \in ids :
                        LET k == RowsKeyedBy(id)
                        IN  k.meal_item + k.drink_item + k.appetizer_item = 0
                  /\ \A g \in Reqs :
                        (Fetched(g) /\ req[g].getId = req[r].receiptId) =>
                            \A id \in ids :
                                \E j \in DOMAIN req[g].resp.body :
                                    /\ req[g].resp.body[j].line_item_id = id
                                    /\ req[g].resp.body[j].type = "Unknown"

\* the step part of C19: a checkout whose cart has only such entries enters
\* its catch block only when a statement raised
UnknownNoCatch ==
    \A r \in Reqs :
        (/\ req[r].kind = "checkout"
         /\ \A n \in DOMAIN req[r].orderList : Unrecognized(req[r].orderList[n])
         /\ req[r].pc # "ROLLBACK" /\ req'[r].pc = "ROLLBACK") => StatementFails(r)

\* C19: a cart entry whose type is not a recognized one does not make the
\* checkout fail: the handler reaches its catch block only when a statement
\* raises; a successful checkout leaves the entry's line_item rows, with no
\* row in any variant table, and a fetch of the receipt reports each of
\* these line items with type Unknown.
C19_UnknownType == [](UnknownRows) /\ [][UnknownNoCatch]_vars

C19_Witness ==
    \E r \in Reqs, g \in Reqs :
        /\ Succeeded(r) /\ Fetched(g) /\ req[g].getId = req[r].receiptId
        /\ req[r].orderList = << Entry("Side", "FriedRice", <<>>, NULL, NULL, 4, 2) >>
        /\ Len(req[g].resp.body) = 2
        /\ \A j \in DOMAIN req[g].resp.body : req[g].resp.body[j].type = "Unknown"
        /\ Cardinality(Committed(line_item)) = 2
        /\ Committed(meal_item) \cup Committed(drink_item) \cup Committed(appetizer_item) = {}

\* the state part of C20: once no request is running, every inventory item is
\* down by all that the successful checkouts required, below zero or not
NoFloor ==
    Quiet => \A x \in InvIds : inventory[x] = InitQty - SucceededUnits(x)

\* the step part of C20: a checkout enters its catch block only when a
\* statement raised, whatever the stock
NoStockRejection ==
    \A r \in Reqs :
        (req[r].kind = "checkout" /\ req[r].pc # "ROLLBACK" /\ req'[r].pc = "ROLLBACK")
            => StatementFails(r)

\* C20: no checkout is rejected or clamped for lack of stock: when an item's
\* quantity n is less than the amount d a checkout requires, the checkout
\* still succeeds and the quantity becomes n - d, negative or not.
C20_NoInventoryFloor == [](NoFloor) /\ [][NoStockRejection]_vars

C20_Witness ==
    /\ Quiet
    /\ \E r \in Reqs :
          /\ Succeeded(r)
          /\ req[r].orderList =
                << Entry("Meal", NULL, <<"OrangeChicken", "OrangeChicken">>,
                         "FriedRice", "Plate", 9, 2) >>
          /\ \A o \in Reqs \ {r} : ~Succeeded(o)
    /\ InitQty < 4
    /\ inventory["chicken"] = InitQty - 4
    /\ inventory["chicken"] < 0

\* ======================================================================
\* The pages that send the checkout
\* ======================================================================
\* an item of the kiosk cart; entrees and sides are NULL when the item has none
CartItem(name, type, entrees, sides, price, quantity) ==
    [name |-> name, type |-> type, entrees |-> entrees, sides |-> sides,
     price |-> price, quantity |-> quantity]

\* cartItems.map(item => ({ name, price, quantity: item.quantity || 1,
\*   entrees: item.entrees ? item.entrees.filter(entree => entree !== "N/A") : [],
\*   side: item.sides && item.sides.length > 0 ? item.sides[0] : 'White Rice', type }))
checkoutDetails(cartItems) ==
    [n \in DOMAIN cartItems |->
        LET item == cartItems[n] IN
        Entry(item.type, item.name,
              IF item.entrees = NULL THEN << >>
              ELSE SelectSeq(item.entrees, LAMBDA entree : entree # "N/A"),
              IF item.sides # NULL /\ Len(item.sides) > 0 THEN item.sides[1]
              ELSE "White Rice",
              NULL, item.price, IF item.quantity = 0 THEN 1 ELSE item.quantity)]

\* what the kiosk cart holds when checkout is clicked
KioskCarts ==
    { << CartItem("Drink", "Drink", NULL, NULL, 2, 1) >>,
      << CartItem("Side", "Side", NULL, NULL, 3, 2) >>,
      << CartItem("Bowl", "Meal", <<"OrangeChicken", "N/A", "N/A">>, <<"FriedRice">>, 8, 1),
         CartItem("Drink", "Drink", NULL, NULL, 2, 1) >> }

\* the orderList prop of the cashier's checkout button
CashierLists ==
    { << >>,
      << Entry("Drink", "MediumDrink", <<>>, NULL, NULL, 2, 1) >> }

\* setCartItems([])
clearCart == << >>

MutantKioskCartAfter(cartItems, fetch) == clearCart

\* the kiosk cart once handleCheckout is over: clearCart() in the response.ok
\* branch only
KioskCartAfter(cartItems, fetch) == IF fetch = "ok" THEN clearCart ELSE cartItems

\* the alert of the kiosk's handleCheckout: the response.ok branch, the else
\* branch (the body parsed), the catch block
KioskAlert(fetch) ==
    CASE fetch = "ok"    -> "Checkout successful!"
      [] fetch = "notOk" -> "Error: <errorData.error>"
      [] OTHER           -> "An error occurred while processing your order. Please try again."

\* the API function processOrder: `await response.json(); return response.ok`,
\* and `return false` from its catch block
processOrder(fetch) == fetch = "ok"

\* the cashier's order list once handleCheckout is over: resetOrder() after
\* success; the call throws when the button was given no resetOrder
CashierListAfter(orderList, success, hasReset) ==
    IF success /\ hasReset THEN << >> ELSE orderList

CashierAlert(success) ==
    IF success THEN "Checkout completed." ELSE "Checkout failed. Please try again."

\* the page's handler runs on with the way its fetch settled
Settle(s, fetch) ==
    IF s.page = "kiosk"
    THEN [s EXCEPT !.fetch = fetch, !.cart = KioskCartAfter(s.cart, fetch),
                   !.alert = KioskAlert(fetch)]
    ELSE [s EXCEPT !.fetch = fetch,
                   !.cart = CashierListAfter(s.cart, processOrder(fetch), s.hasReset),
                   !.alert = CashierAlert(processOrder(fetch))]

\* one page at a time: no request is running and no page waits for its fetch
PagesIdle == Quiet /\ \A o \in Reqs : req[o].fetch # "pending"

\* ShoppingCartPage.handleCheckout up to its fetch
KioskHandleCheckout(r) ==
    /\ PagesIdle /\ NextSlot(r)
    /\ \E cartItems \in KioskCarts :
          req' = [req EXCEPT ![r] =
                     [IdleReq EXCEPT !.kind = "checkout", !.pc = "BEGIN",
                                     !.orderList = checkoutDetails(cartItems),
                                     !.totalPrice = CartSum(cartItems),
                                     !.page = "kiosk", !.cart = cartItems,
                                     !.clicked = cartItems, !.fetch = "pending"]]
    /\ Acquire(r)
    /\ UNCHANGED <<tables, seqs, tx, txOwner>>
    /\ UNCHANGED <<catalog, provider, cashier>>

\* CheckoutButton.handleCheckout up to the fetch of processOrder; an empty
\* order list is answered by an alert and nothing is sent
CashierHandleCheckout(r) ==
    /\ PagesIdle /\ NextSlot(r)
    /\ \E orderList \in CashierLists, hasReset \in BOOLEAN :
          \/ /\ orderList = << >>
             /\ req' = [req EXCEPT ![r] =
                           [IdleReq EXCEPT !.pc = "done", !.page = "cashier",
                                           !.hasReset = hasReset,
                                           !.alert = "No items in the order to checkout."]]
             /\ UNCHANGED <<live, idle, waitq, hold>>
          \/ /\ orderList # << >>
             /\ req' = [req EXCEPT ![r] =
                           [IdleReq EXCEPT !.kind = "checkout", !.pc = "BEGIN",
                                           !.orderList = orderList,
                                           !.totalPrice = CartSum(orderList),
                                           !.page = "cashier", !.cart = orderList,
                                           !.clicked = orderList,
                                           !.hasReset = hasReset, !.fetch = "pending"]]
             /\ Acquire(r)
    /\ UNCHANGED <<tables, seqs, tx, txOwner>>
    /\ UNCHANGED <<catalog, provider, cashier>>

\* the response of the handler reaches the page: res.json(...) or
\* res.status(500).json(...)
FetchResolves(r) ==
    /\ req[r].fetch = "pending" /\ req[r].pc = "done" /\ req[r].resp.status # 0
    /\ req' = [req EXCEPT ![r] =
                  Settle(req[r], IF req[r].resp.status = 200 THEN "ok" ELSE "notOk")]
    /\ UNCHANGED <<tables, seqs, tx, txOwner, live, idle, waitq, hold>>
    /\ UNCHANGED <<catalog, provider, cashier>>

\* the fetch ends without the handler's response: it rejects (the network
\* fails, the page gives up waiting), or something between the page and the
\* server answers a non-OK status with a body that is no JSON
FetchFails(r) ==
    /\ req[r].fetch = "pending"
    /\ \/ req' = [req EXCEPT ![r] = Settle(req[r], "throws")]
       \/ req' = [req EXCEPT ![r] = Settle(req[r], "notOkNoJson")]
    /\ UNCHANGED <<tables, seqs, tx, txOwner, live, idle, waitq, hold>>
    /\ UNCHANGED <<catalog, provider, cashier>>

CheckoutStatement(r) ==
    \/ Begin(r) \/ InsertReceipt(r) \/ InsertLineItem(r) \/ InsertVariant(r)
    \/ SelectIngredients(r) \/ UpdateInventory(r) \/ Commit(r) \/ Rollback(r)
    \/ StatementFails(r)

NextPages ==
    \E r \in Reqs : \/ KioskHandleCheckout(r) \/ CashierHandleCheckout(r)
                    \/ FetchResolves(r) \/ FetchFails(r) \/ CheckoutStatement(r)

SpecPages == Init /\ [][NextPages]_vars

\* the fetch of r settled without a success: a non-OK status, or it threw
FetchFailed(r) == req[r].fetch \in {"notOk", "notOkNoJson", "throws"}

FailureAlerts ==
    { "Error: <errorData.error>",
      "An error occurred while processing your order. Please try again.",
      "Checkout failed. Please try again." }

\* C18: when the checkout request of the kiosk cart page or of the cashier's
\* checkout button returns a non-OK status or throws, the page's cart (order
\* list) is what it was when checkout was clicked and the page shows a failure
\* alert; a cart differs from what it was at the click only when it is empty,
\* the fetch returned an OK status and the handler answered success.
C18_CartSurvivesFailure ==
    \A r \in Reqs :
        /\ FetchFailed(r) =>
              /\ req[r].cart = req[r].clicked
              /\ req[r].alert \in FailureAlerts
        /\ req[r].cart # req[r].clicked =>
              /\ req[r].cart = << >>
              /\ req[r].fetch = "ok"
              /\ req[r].pc = "done" /\ req[r].resp.status = 200

C18_Witness ==
    \E k \in Reqs, b \in Reqs :
        /\ req[k].page = "kiosk" /\ req[k].fetch = "notOk"
        /\ req[k].resp.status = 500
        /\ Len(req[k].cart) = 2 /\ req[k].cart = req[k].clicked
        /\ req[k].alert = "Error: <errorData.error>"
        /\ req[b].page = "cashier" /\ req[b].fetch = "throws"
        /\ req[b].cart # << >> /\ req[b].cart = req[b].clicked
        /\ req[b].alert = "Checkout failed. Please try again."

\* ======================================================================
\* Fetching a receipt
\* ======================================================================
\* the type the three existence checks give a line item: meal_item first,
\* then appetizer_item, then drink_item, Unknown when none has a row
DerivedType(id) ==
    LET k == RowsKeyedBy(id) IN
    IF k.meal_item > 0 THEN "Meal"
    ELSE IF k.appetizer_item > 0 THEN "Appetizer"
    ELSE IF k.drink_item > 0 THEN "Drink"
    ELSE "Unknown"

\* g is over and no request has arrived since
LastOver(g) == req[g].pc = "done" /\ \A o \in Reqs : o > g => ~Started(o)

\* C21: a receipt fetch answers 404 only when no receipt has the id, and never
\* success then; a fetch that answers success returns every line_item row of the
\* receipt once, with its price and with the one type the existence checks give
\* it: Meal, else Appetizer, else Drink, else Unknown.
C21_VariantDerivation ==
    \A g \in Reqs :
        (req[g].kind = "get" /\ LastOver(g)) =>
            LET id == req[g].getId
                there == \E x \in Committed(receipt) : x.receipt_id = id
                lines == { x \in Committed(line_item) : x.receipt_id = id }
                body == req[g].resp.body
            IN  /\ req[g].resp.status = 404 => ~there
                /\ ~there => req[g].resp.status # 200
                /\ req[g].resp.status = 200 =>
                      /\ Len(body) = Cardinality(lines)
                      /\ \A x \in lines :
                            \E j \in DOMAIN body :
                                /\ body[j].line_item_id = x.line_item_id
                                /\ body[j].price = x.price
                                /\ body[j].type = DerivedType(x.line_item_id)

C21_Witness ==
    \E p \in Reqs, g \in Reqs :
        /\ Answered(p, "put") /\ req[p].getId = 1
        /\ req[p].line_items = << UnknownItem, DrinkItem >>
        /\ Fetched(g) /\ LastOver(g) /\ req[g].getId = 1
        /\ Len(req[g].resp.body) = 2
        /\ req[g].resp.body[1].type = "Unknown"
        /\ req[g].resp.body[2].type = "Drink"

\* ======================================================================
\* Ingredient resolution
\* ======================================================================
\* the units of inventory item x in a list of ingredient rows
RowUnits(rows, x) ==
    LET units == [n \in DOMAIN rows |->
                     IF rows[n].inventory_id = x THEN rows[n].quantity ELSE 0]
    IN  SumOver(DOMAIN rows, units)

\* C22: the ingredient rows a checkout reads for a cart entry are those of the
\* set of names of the entry (a Meal: its entrees and its side, a name counted
\* once; any other entry: its name), read once the entry's line items are all
\* inserted; and once successful checkouts are over every inventory item is
\* down, per cart entry, by these rows' quantity times the entry's quantity.
C22_IngredientResolution ==
    /\ \A r \in Reqs :
          (req[r].kind = "checkout" /\ req[r].pc = "updInventory") =>
              LET e == req[r].orderList[req[r].i] IN
              /\ \A x \in InvIds : RowUnits(req[r].ingredientList, x) = UnitsPerSale(e, x)
              /\ Cardinality(req[r].lineItemIds) =
                    Len(Expanded(SubSeq(req[r].orderList, 1, req[r].i)))
    /\ Quiet =>
          \A x \in InvIds :
              LET taken == [r \in Reqs |->
                     LET one == [n \in DOMAIN req[r].orderList |->
                                    UnitsPerSale(req[r].orderList[n], x)
                                       * QuantityOf(req[r].orderList[n])]
                     IN  IF Succeeded(r) THEN SumOver(DOMAIN req[r].orderList, one) ELSE 0]
              IN  InitQty - inventory[x] = SumOver(Reqs, taken)

C22_Witness ==
    \E r \in Reqs :
        /\ req[r].kind = "checkout" /\ req[r].pc = "updInventory" /\ req[r].k = 1
        /\ req[r].orderList =
              << Entry("Meal", NULL, <<"OrangeChicken", "OrangeChicken">>,
                       "FriedRice", "Plate", 9, 2) >>
        /\ Cardinality(req[r].lineItemIds) = 2
        /\ Len(req[r].ingredientList) = 2
        /\ RowUnits(req[r].ingredientList, "chicken") = 2

\* ======================================================================
\* Transactions and pooled connections
\* ======================================================================
\* C25: no pooled connection is inside a transaction begun by a request that
\* has sent its response, and a request about to run a statement on a
\* connection that is inside a transaction (a statement other than its own
\* BEGIN) is the request whose BEGIN opened that transaction.
C25_NoStrayTransaction ==
    /\ \A r \in Reqs, c \in Clients :
          (req[r].pc = "done" /\ req[r].resp.status # 0) =>
              ~(tx[c] = "open" /\ txOwner[c] = r)
    /\ \A r \in Reqs :
          (InFlight(r) /\ req[r].pc # "BEGIN" /\ tx[hold[r]] = "open") =>
              txOwner[hold[r]] = r


\* C27: once an order completion for a receipt no other request writes to is
\* over, it has answered success exactly when the receipt's status is
\* Fulfilled, and when it has answered 500 the status is what it was before
\* the request.
C27_CompletionAgreesWithStatus ==
    \A r \in Reqs :
        (req[r].kind = "complete" /\ LastOver(r) /\ OnlyWriter(r)) =>
            /\ req[r].resp.status = 200 <=> StateOf(req[r].getId).status = {"Fulfilled"}
            /\ req[r].resp.status = 500 =>
                  StateOf(req[r].getId).status = StartOf(req[r].getId).status


\* the ids of the orders a pending-orders answer lists, in the answer's order
ListedIds(g) == [j \in DOMAIN req[g].resp.body |-> req[g].resp.body[j].receipt_id]

PendingNow == { x.receipt_id : x \in { y \in Committed(receipt) : y.status = "Pending" } }

\* C23: once an order completion has answered success and every request is
\* over, the receipt's status is Fulfilled unless a status edit of that
\* receipt was made, and a pending-orders fetch made after the completion does
\* not list the receipt; a pending-orders fetch lists only receipts whose
\* status is Pending (one a status edit has set back to Pending included),
\* each once, at most 6 of them, the oldest first, and no pending receipt
\* older than a listed one is left out.
C23_KitchenCompletion ==
    /\ \A r \in Reqs :
          (/\ Answered(r, "complete") /\ Quiet
           /\ \A o \in Reqs : req[o].kind = "put" => req[o].getId # req[r].getId) =>
              StateOf(req[r].getId).status = {"Fulfilled"}
    /\ \A g \in Reqs :
          (Answered(g, "pending") /\ LastOver(g)) =>
              LET ids == ListedIds(g) IN
              /\ \A r \in Reqs : Answered(r, "complete") =>
                    \A j \in DOMAIN ids : ids[j] # req[r].getId
              /\ \A j \in DOMAIN ids : ids[j] \in PendingNow
              /\ Len(ids) <= 6
              /\ \A j, k \in DOMAIN ids : j < k => ids[j] < ids[k]
              /\ \A id \in PendingNow :
                    \/ \E j \in DOMAIN ids : ids[j] = id
                    \/ Len(ids) = 6 /\ \A j \in DOMAIN ids : ids[j] < id


\* ------------------------------------------------------------ the translation provider
backend == <<tables, seqs, tx, txOwner, pool, req>>

\* what the batch endpoint answers for one text: its translation into the
\* target language
Translation(text, lang) == Shown(text.text, lang)

\* `translationCache[text]` is truthy
Cached(cache, text) == cache[text] # NoEntry

\* ({ ...prevCache, ...newTranslations }) for the texts of `untranslated`
Merged(prevCache, untranslated, entry(_)) ==
    [t \in Texts |->
        IF \E n \in DOMAIN untranslated : untranslated[n] = t THEN entry(t)
        ELSE prevCache[t]]

\* textsArray.map((text) => translationCache[text] || text)
Retrieved(cache, textsArray) ==
    [n \in DOMAIN textsArray |->
        IF Cached(cache, textsArray[n]) THEN cache[textsArray[n]] ELSE textsArray[n]]

\* the arguments of translate: a string (isArray FALSE, one text) or an array
TextArrays == SeqsUpTo(Texts, 2)

NextCall(k) == calls[k].pc = "idle" /\ \A j \in Calls : j < k => calls[j].pc # "idle"

\* setLanguage(lang)
setLanguage(lang) ==
    /\ currentLanguage' = lang
    /\ translationCache' = EmptyCache
    /\ UNCHANGED <<calls, cart, nextId, cashier, catalog, backend>>

\* translate(texts), up to its await or, when it awaits nothing, its return.
\* The callback is the one of the latest render: it holds that render's
\* currentLanguage and translationCache. `result` is textsArray's image; the
\* caller of a string gets its only element.
translate(k, isArray, textsArray) ==
    LET untranslatedTexts == SelectSeq(textsArray, LAMBDA t : ~Cached(translationCache, t))
        call == [IdleCall EXCEPT !.texts = textsArray, !.isArray = isArray,
                                 !.lang = currentLanguage, !.cache = translationCache,
                                 !.untranslated = untranslatedTexts]
    IN
    /\ NextCall(k)
    /\ calls' = [calls EXCEPT ![k] =
          IF currentLanguage = "en"
          THEN [call EXCEPT !.pc = "done", !.untranslated = << >>, !.result = textsArray]
          ELSE IF untranslatedTexts = << >>
          THEN [call EXCEPT !.pc = "done", !.result = Retrieved(translationCache, textsArray)]
          ELSE [call EXCEPT !.pc = "await"]]
    /\ UNCHANGED <<currentLanguage, translationCache, cart, nextId, cashier, catalog, backend>>

\* axios.post('/api/doTranslateBatch', ...) resolves: the cache of now takes
\* the new translations, and the call returns what the cache it holds gives
ApiResolves(k) ==
    LET call == calls[k] IN
    /\ call.pc = "await"
    /\ translationCache' = Merged(translationCache, call.untranslated,
                                  LAMBDA t : Translation(t, call.lang))
    /\ calls' = [calls EXCEPT ![k] = [call EXCEPT !.pc = "done", !.api = "resolved",
                                         !.result = Retrieved(call.cache, call.texts)]]
    /\ UNCHANGED <<currentLanguage, cart, nextId, cashier, catalog, backend>>

\* axios.post rejects: the cache of now takes each text as its own translation
ApiRejects(k) ==
    LET call == calls[k] IN
    /\ call.pc = "await"
    /\ translationCache' = Merged(translationCache, call.untranslated, LAMBDA t : t)
    /\ calls' = [calls EXCEPT ![k] = [call EXCEPT !.pc = "done", !.api = "rejected",
                                         !.result = Retrieved(call.cache, call.texts)]]
    /\ UNCHANGED <<currentLanguage, cart, nextId, cashier, catalog, backend>>

TranslateString(k) == \E t \in Texts : translate(k, FALSE, << t >>)
TranslateArray(k)  == \E a \in TextArrays : translate(k, TRUE, a)
ChangeLanguage     == \E lang \in Languages : setLanguage(lang)

NextTranslate ==
    \/ ChangeLanguage
    \/ \E k \in Calls : TranslateString(k) \/ TranslateArray(k) \/ ApiResolves(k) \/ ApiRejects(k)

SpecTranslate == Init /\ [][NextTranslate]_vars

\* C24: a translate call that has returned under language 'en' returns its
\* argument; under another language it returns as many elements as it was
\* given, the n-th being the translation of the n-th text into that language,
\* or the text itself only where the text was not cached and the API call was
\* rejected.
C24_TranslateResult ==
    \A k \in Calls :
        LET call == calls[k] IN
        call.pc = "done" =>
            /\ call.lang = "en" => call.result = call.texts
            /\ call.lang # "en" =>
                  /\ Len(call.result) = Len(call.texts)
                  /\ \A n \in DOMAIN call.texts :
                        \/ call.result[n] = Translation(call.texts[n], call.lang)
                        \/ /\ call.result[n] = call.texts[n]
                           /\ call.api = "rejected"
                           /\ ~Cached(call.cache, call.texts[n])

\* C26: every entry of the translation cache is a translation into the
\* current language, or a text standing for itself after a rejected API call.
C26_CacheOfCurrentLanguage ==
    \A t \in Texts :
        Cached(translationCache, t) =>
            translationCache[t].lang \in {currentLanguage, "en"}


\* ------------------------------------------------------------ the cart provider
\* JSON.stringify of a field that is undefined (NULL) or an array of strings:
\* undefined, or a string that spells the array's elements in order
JSONstringify(v) == IF v = NULL THEN NULL ELSE [json |-> v]

\* what the pages pass to addItemToCart (ShoppingCartPage, SelectSidePage)
AddedItems ==
    { CartItem("Drink", "Drink", NULL, NULL, 2, 0),
      CartItem("Side", "Side", NULL, NULL, 3, 0),
      CartItem("Bowl", "Meal", <<"OrangeChicken", "N/A", "N/A">>, <<"FriedRice">>, 8, 0),
      CartItem("Bowl", "Meal", <<"BeijingBeef", "N/A", "N/A">>, <<"FriedRice">>, 8, 0) }

\* cartItems.findIndex(...): the first index of an equal item, 0 for -1
existingItemIndex(cartItems, item) ==
    LET found == { n \in DOMAIN cartItems :
                      /\ cartItems[n].name = item.name
                      /\ JSONstringify(cartItems[n].entrees) = JSONstringify(item.entrees)
                      /\ JSONstringify(cartItems[n].sides) = JSONstringify(item.sides) }
    IN  IF found = {} THEN 0 ELSE MinOf(found)

\* `quantity || 1`
QuantityOr1(quantity) == IF quantity = 0 THEN 1 ELSE quantity

\* { ...item, id: nextId, ...details, quantity: 1 }, with no details
newItem(item, id) ==
    [id |-> id, name |-> item.name, type |-> item.type, entrees |-> item.entrees,
     sides |-> item.sides, price |-> item.price, quantity |-> 1]

MutantStays(newQuantity) == newQuantity >= 0

\* newQuantity > 0 ? { ...item, quantity: newQuantity } : null
Stays(newQuantity) == newQuantity > 0

addItemToCart(item) ==
    LET n == existingItemIndex(cart, item) IN
    /\ IF n > 0
       THEN /\ cart[n].quantity < MaxItemQty
            /\ cart' = [cart EXCEPT ![n].quantity = QuantityOr1(cart[n].quantity) + 1]
            /\ UNCHANGED nextId
       ELSE /\ nextId <= MaxNextId
            /\ cart' = Append(cart, newItem(item, nextId))
            /\ nextId' = nextId + 1
    /\ UNCHANGED <<currentLanguage, translationCache, calls, cashier, catalog, backend>>

removeItemFromCart(itemId) ==
    /\ cart' = SelectSeq(cart, LAMBDA item : item.id # itemId)
    /\ UNCHANGED <<nextId, currentLanguage, translationCache, calls, cashier, catalog, backend>>

updateItemQuantity(itemId, quantityChange) ==
    LET newQuantity(item) == QuantityOr1(item.quantity) + quantityChange
        mapped == [n \in DOMAIN cart |->
                     IF cart[n].id = itemId
                     THEN IF Stays(newQuantity(cart[n]))
                          THEN [cart[n] EXCEPT !.quantity = newQuantity(cart[n])]
                          ELSE [cart[n] EXCEPT !.id = 0]
                     ELSE cart[n]]
    IN
    /\ \A n \in DOMAIN cart : cart[n].id = itemId => newQuantity(cart[n]) <= MaxItemQty
    /\ cart' = SelectSeq(mapped, LAMBDA item : item.id # 0)
    /\ UNCHANGED <<nextId, currentLanguage, translationCache, calls, cashier, catalog, backend>>

\* clearCart(): setCartItems([]), setNextId(1)
ClearCart ==
    /\ cart' = clearCart
    /\ nextId' = 1
    /\ UNCHANGED <<currentLanguage, translationCache, calls, cashier, catalog, backend>>

AddToCart      == \E item \in AddedItems : addItemToCart(item)
RemoveFromCart == \E itemId \in 1..MaxNextId : removeItemFromCart(itemId)
UpdateQuantity == \E itemId \in 1..MaxNextId, quantityChange \in {-2, -1, 1} :
                      updateItemQuantity(itemId, quantityChange)

NextCart == AddToCart \/ RemoveFromCart \/ UpdateQuantity \/ ClearCart

SpecCart == Init /\ [][NextCart]_vars

\* every item of the cart has a whole quantity of at least 1
QuantityAtLeast1 == \A n \in DOMAIN cart : cart[n].quantity \in Nat /\ cart[n].quantity >= 1

\* adding an item that equals one of the cart (same name, entrees and sides)
\* raises that item's quantity by 1 and adds no entry; adding any other item
\* appends one entry of quantity 1
AddIncrements ==
    \A item \in AddedItems :
        addItemToCart(item) =>
            LET same == { n \in DOMAIN cart :
                            /\ cart[n].name = item.name /\ cart[n].entrees = item.entrees
                            /\ cart[n].sides = item.sides }
            IN  IF same # {}
                THEN /\ Len(cart') = Len(cart)
                     /\ \E n \in same :
                           /\ cart'[n].quantity = cart[n].quantity + 1
                           /\ \A o \in DOMAIN cart : o # n => cart'[o] = cart[o]
                ELSE /\ Len(cart') = Len(cart) + 1
                     /\ cart'[Len(cart')].quantity = 1
                     /\ \A o \in DOMAIN cart : cart'[o] = cart[o]

\* a quantity update that brings an item to 0 or below removes the item, and
\* any other update leaves the item with the new quantity
UpdateRemoves ==
    \A itemId \in 1..MaxNextId, quantityChange \in {-2, -1, 1} :
        updateItemQuantity(itemId, quantityChange) =>
            \A n \in DOMAIN cart :
                cart[n].id = itemId =>
                    IF cart[n].quantity + quantityChange <= 0
                    THEN \A o \in DOMAIN cart' : cart'[o].id # itemId
                    ELSE \E o \in DOMAIN cart' :
                            /\ cart'[o].id = itemId
                            /\ cart'[o].quantity = cart[n].quantity + quantityChange

\* C28: after any sequence of addItemToCart, updateItemQuantity,
\* removeItemFromCart and clearCart every item of the cart has a whole
\* quantity of at least 1; adding an item equal to one of the cart raises that
\* item's quantity by 1 instead of adding an entry, and a quantity update that
\* would bring a quantity to 0 or below removes the item.
C28_CartQuantity == [](QuantityAtLeast1) /\ [][AddIncrements /\ UpdateRemoves]_vars

C28_Witness ==
    /\ Len(cart) = 2
    /\ cart[1].quantity = 2 /\ cart[1].id = 2
    /\ cart[2].quantity = 1 /\ cart[2].id = 3


\* ------------------------------------------------------------ the cashier page
\* rows of the menu the page has fetched: meals, sides, entrees
Meals   == { MenuRow(1, "Bowl"), MenuRow(2, "Plate"), MenuRow(3, "Bigger Plate"),
             MenuRow(4, "Family Feast") }
Sides   == { MenuRow(21, "FriedRice"), MenuRow(22, "ChowMein") }
Entrees == { MenuRow(11, "OrangeChicken"), MenuRow(12, "BeijingBeef"),
             MenuRow(13, "KungPaoChicken") }

\* switch (meal.name)
EntreesOfMeal(name) ==
    CASE name = "Bowl"         -> 1
      [] name = "Plate"        -> 2
      [] name = "Bigger Plate" -> 3
      [] OTHER                 -> 0

\* selectedEntrees.reduce((sum, e) => sum + e.count, 0)
RECURSIVE totalEntrees(_)
totalEntrees(entrees) ==
    IF entrees = << >> THEN 0 ELSE Head(entrees).count + totalEntrees(Tail(entrees))

MutantMayAddAnother(count, total, max) == count < max

\* existingEntree.count < maxEntreesAllowed && totalEntrees < maxEntreesAllowed
MayAddAnother(count, total, max) == count < max /\ total < max

handleMealSelection(meal) ==
    /\ IF selectedMeal # NoRow /\ selectedMeal.menu_id = meal.menu_id
       THEN /\ selectedMeal' = NoRow
            /\ maxEntreesAllowed' = 0
       ELSE /\ selectedMeal' = meal
            /\ maxEntreesAllowed' = EntreesOfMeal(meal.name)
    /\ selectedSide' = NoRow
    /\ selectedEntrees' = << >>
    /\ UNCHANGED <<provider, catalog, backend>>

\* with no meal selected the handler alerts and returns
handleSideSelection(side) ==
    /\ selectedMeal # NoRow
    /\ selectedSide' = IF selectedSide # NoRow /\ selectedSide.menu_id = side.menu_id
                       THEN NoRow ELSE side
    /\ UNCHANGED <<selectedMeal, selectedEntrees, maxEntreesAllowed, provider, catalog, backend>>

\* when the entree is not selected and the meal is full the handler alerts
handleEntreeSelection(entree) ==
    LET found == { n \in DOMAIN selectedEntrees : selectedEntrees[n].menu_id = entree.menu_id }
        total == totalEntrees(selectedEntrees)
    IN
    /\ IF found # {}
       THEN LET n == MinOf(found)
                existingEntree == selectedEntrees[n]
            IN  selectedEntrees' =
                   IF MayAddAnother(existingEntree.count, total, maxEntreesAllowed)
                   THEN [selectedEntrees EXCEPT ![n].count = @ + 1]
                   ELSE IF existingEntree.count > 1
                   THEN [selectedEntrees EXCEPT ![n].count = @ - 1]
                   ELSE SelectSeq(selectedEntrees, LAMBDA e : e.menu_id # entree.menu_id)
       ELSE IF total < maxEntreesAllowed
       THEN selectedEntrees' =
               Append(selectedEntrees, [menu_id |-> entree.menu_id, name |-> entree.name,
                                        count |-> 1])
       ELSE UNCHANGED selectedEntrees
    /\ UNCHANGED <<selectedMeal, selectedSide, maxEntreesAllowed, provider, catalog, backend>>

SelectMealOfMenu   == \E meal \in Meals : handleMealSelection(meal)
SelectSideOfMenu   == \E side \in Sides : handleSideSelection(side)
SelectEntreeOfMenu == \E entree \in Entrees : handleEntreeSelection(entree)

NextCashier == SelectMealOfMenu \/ SelectSideOfMenu \/ SelectEntreeOfMenu

SpecCashier == Init /\ [][NextCashier]_vars

\* the counts of the selected entrees sum to at most maxEntreesAllowed, which
\* is 1 for Bowl, 2 for Plate, 3 for Bigger Plate and 0 otherwise
EntreeBound ==
    /\ totalEntrees(selectedEntrees) <= maxEntreesAllowed
    /\ maxEntreesAllowed =
          IF selectedMeal = NoRow THEN 0
          ELSE IF selectedMeal.name = "Bowl" THEN 1
          ELSE IF selectedMeal.name = "Plate" THEN 2
          ELSE IF selectedMeal.name = "Bigger Plate" THEN 3
          ELSE 0

\* selecting or deselecting a meal leaves no side and no entree selected
MealResets ==
    \A meal \in Meals :
        handleMealSelection(meal) => selectedSide' = NoRow /\ selectedEntrees' = << >>

\* C29: after any sequence of handleMealSelection and handleEntreeSelection
\* calls the counts of selectedEntrees sum to at most maxEntreesAllowed, which
\* is 1 for Bowl, 2 for Plate, 3 for Bigger Plate and 0 otherwise, and
\* selecting or deselecting a meal resets the selected side and entrees.
C29_EntreeBound == [](EntreeBound) /\ [][MealResets]_vars

C29_Witness ==
    /\ selectedMeal # NoRow /\ selectedMeal.name = "Plate"
    /\ selectedSide # NoRow
    /\ Len(selectedEntrees) = 2
    /\ totalEntrees(selectedEntrees) = 2


\* ------------------------------------------------------------ the add endpoints
\* POST /addInventoryItem, /doAddEmployee (no id in the body) and /addItem:
\* SELECT MAX(id), then INSERT with MAX + 1, each through runQuery and on its
\* own (no transaction). No statement of the source keeps two rows from
\* taking one id; an INSERT the database rejects is a failing statement.
\* SELECT MAX(...) of the committed rows: null when the table is empty
MaxId(rows) ==
    IF rows = {} THEN [null |-> TRUE, max |-> 0]
    ELSE [null |-> FALSE, max |-> (CHOOSE x \in rows : \A y \in rows : y.id <= x.id).id]

\* `.rows[0].max + 1`: null + 1 is 1
PlusOne(row) == IF row.null THEN 1 ELSE row.max + 1

PostAdd(r, table) ==
    /\ NextSlot(r)
    /\ req' = [req EXCEPT ![r] = [IdleReq EXCEPT !.kind = "add", !.pc = "selMax",
                                     !.table = table]]
    /\ Acquire(r)
    /\ UNCHANGED <<tables, seqs, tx, txOwner>>
    /\ UNCHANGED <<catalog, provider, cashier>>

SelectMax(r) ==
    LET c == hold[r]
        s == req[r]
    IN
    /\ InFlight(r) /\ s.pc = "selMax"
    /\ req' = [req EXCEPT ![r] = [s EXCEPT !.pc = "insRow",
                                     !.newId = PlusOne(MaxId(catalog[s.table]))]]
    /\ ReleaseAndNext(r, c, FALSE, TRUE)
    /\ UNCHANGED <<tables, seqs, tx, txOwner>>
    /\ UNCHANGED <<catalog, provider, cashier>>

\* INSERT INTO ... VALUES (id, ...), then res.json({ success: true, ... })
InsertRow(r) ==
    LET c == hold[r]
        s == req[r]
    IN
    /\ InFlight(r) /\ s.pc = "insRow"
    /\ catalog' = [catalog EXCEPT ![s.table] = @ \cup { [id |-> s.newId, by |-> r] }]
    /\ req' = [req EXCEPT ![r] = Respond(s, 200, 0, << >>)]
    /\ ReleaseAndNext(r, c, FALSE, FALSE)
    /\ UNCHANGED <<tables, seqs, tx, txOwner>>
    /\ UNCHANGED <<provider, cashier>>

AddRequest(r) == \E table \in AddTables : PostAdd(r, table)

NextAdd == \E r \in Reqs : AddRequest(r) \/ SelectMax(r) \/ InsertRow(r) \/ StatementFails(r)

SpecAdd == Init /\ [][NextAdd]_vars

\* C30: when the requests to the add endpoints are over, two that were to the
\* same endpoint and both answered success have inserted rows with different
\* ids, and each that answered success has its row in the table.
C30_UniqueIds ==
    Quiet =>
        /\ \A r \in Reqs :
              Answered(r, "add") =>
                  [id |-> req[r].newId, by |-> r] \in catalog[req[r].table]
        /\ \A r, o \in Reqs :
              (/\ r # o /\ Answered(r, "add") /\ Answered(o, "add")
               /\ req[r].table = req[o].table) =>
                  req[r].newId # req[o].newId

=============================================================================
